---- MODULE Spec2Model ----
(***************************************************************************)
(* binance-streamer: the local order book and its synchronisation with     *)
(* the depth stream (orderbook_manager.py, orderbook_process.py) and the   *)
(* CSV writers (file_writer.py), as state machines.                        *)
(*                                                                         *)
(* One symbol is modelled: every per-symbol object of the code (the        *)
(* LocalOrderBook, its event buffer) is independent of the other symbols'. *)
(* Prices and quantities are the numbers float() parses from the wire      *)
(* strings, scaled to integers.                                            *)
(***************************************************************************)
EXTENDS Integers, Sequences, FiniteSets, TLC

VARIABLES
    orderbook,      \* the LocalOrderBook object: a record of its fields
    event_buffer,   \* OrderBookManager.event_buffers[symbol], a deque(maxlen)
    resync_threshold, \* OrderBookManager.resync_threshold
    resync_age,     \* time.time() - orderbook.last_resync_time, by class
    pc,             \* position of run(): grace sleep, snapshot fetch, monitor
    stream_id,      \* the exchange: final update id of the last diff it sent
    last_op,        \* history: the last handler that ran, what it did and
                    \* what it put on its data_queue, and the number of
                    \* resyncs started so far
    exchange,       \* the exchange: its book after every update id, and
                    \* the diff of every update id
    live_applied,   \* history: <<pu, u>> of the diffs applied in Live mode
                    \* since the last snapshot load (the last two of them)
    writer_target,  \* Process(target=...): the writer function that runs
    symbol_queues,  \* the bus: the queue(s) the writer reads, by name
    batches,        \* multi_queue_writer_process: batches[stream_type][symbol]
    csv_files,      \* the CSV files: whether each exists, and its lines
                    \* (the header line, and the data rows as record ids)
    writer_pc,      \* position of the writer in its loop
    flush_due,      \* time.time() - last_flush >= flush_interval
    published,      \* number of records the stream clients have put
    stop_sent,      \* the stop sentinel has been put on the bus
    taken,          \* history: ids of the records the writer has taken
    stop_received,  \* history: the writer has taken the stop sentinel
    io_errors,      \* history: number of file writes that have failed
    manager         \* the ProcessManager: its fields, the position of its
                    \* main thread and of shutdown(), and its worker
                    \* processes

book_vars == <<orderbook, event_buffer, resync_threshold, resync_age, pc,
               stream_id, exchange, last_op, live_applied>>

writer_vars == <<writer_target, symbol_queues, batches, csv_files, writer_pc,
                 flush_due, published, stop_sent, taken, stop_received,
                 io_errors, manager>>

vars == <<book_vars, writer_vars>>

----------------------------------------------------------------------------
(* Bounds of the model.                                                    *)

\* update ids of the diffs and snapshots of the process model: 0..MaxId
MaxId == 5
\* update ids of the replay model and of the book model: 0..ReplayMaxId
ReplayMaxId == 3
\* prices are 1..MaxPrice
MaxPrice == 3
\* quantities are 0..MaxQty; 0 deletes a level
MaxQty == 1
\* LocalOrderBook(symbol, max_depth): levels kept per side (1000 in the
\* code, as is the limit of the snapshot request)
max_depth == 2
\* deque(maxlen=...): capacity of the event buffer (1000 in the code)
BufferMaxLen == 3
\* update_count is capped so that the state space is finite
MaxUpdateCount == 3
\* resync_count is capped so that the state space is finite
MaxResyncCount == 2

\* records put on the bus have the ids 1..MaxRecords
MaxRecords == 3
\* performance_config.get('batch_size', 100)
batch_size == 2
\* multiprocessing.Queue(maxsize=queue_maxsize) (10000 in the code)
queue_maxsize == 2
\* file writes fail at most MaxIoErrors times, so that the files stay finite
MaxIoErrors == 2

\* orderbook_config.get('resync_threshold', 5)
DefaultResyncThreshold == 5

\* the exchange's book is not part of the model: diffs and snapshots are
\* drawn from sets
ExchangeNotStarted == exchange = [books |-> <<>>, diffs |-> <<>>]

\* no writer runs in the models of the order book
\* no ProcessManager has been constructed
ManagerNotStarted ==
    [at |-> "none", i |-> 0, shutdown |-> "none", j |-> 0,
     running |-> FALSE, processes |-> <<>>, workers |-> <<>>,
     writer_deaths |-> 0, max_workers |-> 0, calls |-> 0, runs |-> 0,
     pending |-> 0]

WriterNotStarted ==
    /\ writer_target = "none"
    /\ symbol_queues = <<>>
    /\ batches = <<>>
    /\ csv_files = <<>>
    /\ writer_pc = [at |-> "none", i |-> 0]
    /\ flush_due = FALSE
    /\ published = 0
    /\ stop_sent = FALSE
    /\ taken = {}
    /\ stop_received = FALSE
    /\ io_errors = 0
    /\ manager = ManagerNotStarted

----------------------------------------------------------------------------
(* SortedDict: a mapping iterated in ascending order of key_func(key).     *)

neg(x) == -x

identity(x) == x

\* the sort key of every key of d, for a SortedDict(neg)
NegKeys(d) == [k \in DOMAIN d |-> neg(k)]

\* the sort key of every key of d, for a SortedDict()
PlainKeys(d) == [k \in DOMAIN d |-> identity(k)]

\* the keys of a SortedDict in iteration order: ascending sort key
SortedKeys(sort_key) ==
    LET S == DOMAIN sort_key
        rank(k) == 1 + Cardinality({j \in S : sort_key[j] < sort_key[k]})
    IN  [i \in 1..Cardinality(S) |-> CHOOSE k \in S : rank(k) = i]

\* self.bids = SortedDict(neg): keys are the negated prices
BidsKeys(ob) == SortedKeys(NegKeys(ob.bids))

\* self.asks = SortedDict(): keys are the prices
AsksKeys(ob) == SortedKeys(PlainKeys(ob.asks))

\* d[key] = qty
SetItem(d, key, qty) ==
    [k \in DOMAIN d \cup {key} |-> IF k = key THEN qty ELSE d[k]]

\* d.pop(key, None)
PopKey(d, key) == [k \in DOMAIN d \ {key} |-> d[k]]

\* d.popitem(-1) on a SortedDict with the given sort keys: drops the last
\* key of the iteration order
PopLast(d, sort_key) ==
    LET ks == SortedKeys(sort_key) IN PopKey(d, ks[Len(ks)])

EmptyDict == [k \in {} |-> 0]

----------------------------------------------------------------------------
(* LocalOrderBook                                                          *)

NewOrderBook ==
    [bids |-> EmptyDict, asks |-> EmptyDict,
     last_update_id |-> 0, is_synchronized |-> FALSE,
     update_count |-> 0, resync_count |-> 0, consecutive_failures |-> 0]

\* best_bid = -self.bids.peekitem(0)[0] if self.bids else None
\* best_ask = self.asks.peekitem(0)[0] if self.asks else None
\* (None is modelled as 0: no price is 0)
get_best_bid_ask(ob) ==
    <<IF DOMAIN ob.bids # {} THEN -(BidsKeys(ob)[1]) ELSE 0,
      IF DOMAIN ob.asks # {} THEN AsksKeys(ob)[1] ELSE 0>>

\* the first `levels` items of a sequence: list(...)[:levels]
Take(s, levels) == SubSeq(s, 1, IF Len(s) < levels THEN Len(s) ELSE levels)

\* top_bids = [(-price, qty) for price, qty in list(self.bids.items())[:levels]]
\* top_asks = list(self.asks.items())[:levels]
get_depth_summary(ob, levels) ==
    LET bk == Take(BidsKeys(ob), levels)
        ak == Take(AsksKeys(ob), levels)
    IN  [top_bids |-> [i \in 1..Len(bk) |-> <<-(bk[i]), ob.bids[bk[i]]>>],
         top_asks |-> [i \in 1..Len(ak) |-> <<ak[i], ob.asks[ak[i]]>>],
         best_bid |-> get_best_bid_ask(ob)[1],
         best_ask |-> get_best_bid_ask(ob)[2],
         bids_count |-> Cardinality(DOMAIN ob.bids),
         asks_count |-> Cardinality(DOMAIN ob.asks),
         last_update_id |-> ob.last_update_id,
         is_synchronized |-> ob.is_synchronized,
         update_count |-> ob.update_count,
         resync_count |-> ob.resync_count]

\* the loops of initialize_from_snapshot: levels with qty > 0 are stored,
\* bids under the negated price
RECURSIVE LoadLevels(_, _, _)
LoadLevels(d, levels, sign) ==
    IF levels = <<>> THEN d
    ELSE LET price == Head(levels)[1]
             qty == Head(levels)[2]
         IN  LoadLevels(IF qty > 0 THEN SetItem(d, sign * price, qty) ELSE d,
                        Tail(levels), sign)

\* initialize_from_snapshot without the two clear() calls
initialize_from_snapshot_no_clear(ob, snapshot_data) ==
    [ob EXCEPT !.bids = LoadLevels(ob.bids, snapshot_data.bids, -1),
               !.asks = LoadLevels(ob.asks, snapshot_data.asks, 1),
               !.last_update_id = snapshot_data.lastUpdateId,
               !.is_synchronized = TRUE,
               !.consecutive_failures = 0]

initialize_from_snapshot(ob, snapshot_data) ==
    [ob EXCEPT !.bids = LoadLevels(EmptyDict, snapshot_data.bids, -1),
               !.asks = LoadLevels(EmptyDict, snapshot_data.asks, 1),
               !.last_update_id = snapshot_data.lastUpdateId,
               !.is_synchronized = TRUE,
               !.consecutive_failures = 0]

\* the update loops of _apply_updates without the test for qty == 0
RECURSIVE UpdateLevels_stores_zero(_, _, _)
UpdateLevels_stores_zero(d, updates, sign) ==
    IF updates = <<>> THEN d
    ELSE UpdateLevels_stores_zero(
             SetItem(d, sign * Head(updates)[1], Head(updates)[2]),
             Tail(updates), sign)

\* the update loops of _apply_updates that skip a level with qty == 0
RECURSIVE UpdateLevels_ignores_zero(_, _, _)
UpdateLevels_ignores_zero(d, updates, sign) ==
    IF updates = <<>> THEN d
    ELSE UpdateLevels_ignores_zero(
             IF Head(updates)[2] = 0 THEN d
             ELSE SetItem(d, sign * Head(updates)[1], Head(updates)[2]),
             Tail(updates), sign)

\* the two update loops of _apply_updates: qty == 0 pops the key, any
\* other qty sets it
RECURSIVE UpdateLevels(_, _, _)
UpdateLevels(d, updates, sign) ==
    IF updates = <<>> THEN d
    ELSE LET price == Head(updates)[1]
             qty == Head(updates)[2]
         IN  UpdateLevels(IF qty = 0 THEN PopKey(d, sign * price)
                                     ELSE SetItem(d, sign * price, qty),
                          Tail(updates), sign)

\* _apply_updates without the depth limit on the bid side
TrimBids_no_limit(d) == d

\* while len(self.bids) > self.max_depth: self.bids.popitem(-1)
RECURSIVE TrimBids(_)
TrimBids(d) ==
    IF Cardinality(DOMAIN d) > max_depth THEN TrimBids(PopLast(d, NegKeys(d))) ELSE d

\* while len(self.asks) > self.max_depth: self.asks.popitem(-1)
RECURSIVE TrimAsks(_)
TrimAsks(d) ==
    IF Cardinality(DOMAIN d) > max_depth THEN TrimAsks(PopLast(d, PlainKeys(d)))
    ELSE d

apply_updates(ob, bids_updates, asks_updates) ==
    [ob EXCEPT !.bids = TrimBids(UpdateLevels(ob.bids, bids_updates, -1)),
               !.asks = TrimAsks(UpdateLevels(ob.asks, asks_updates, 1))]

\* update_from_depth_event without the continuity check of Live mode
update_from_depth_event_no_pu_check(ob, event_data, is_initial_sync) ==
    IF ~ob.is_synchronized
    THEN [ob |-> ob, ret |-> FALSE]
    ELSE IF event_data.u <= ob.last_update_id
    THEN [ob |-> ob, ret |-> TRUE]
    ELSE [ob |-> [apply_updates(ob, event_data.b, event_data.a)
                    EXCEPT !.last_update_id = event_data.u,
                           !.update_count = @ + 1,
                           !.consecutive_failures = 0],
          ret |-> TRUE]

\* update_from_depth_event that applies a diff without recording its u
update_from_depth_event_keeps_id(ob, event_data, is_initial_sync) ==
    IF ~ob.is_synchronized
    THEN [ob |-> ob, ret |-> FALSE]
    ELSE IF event_data.u <= ob.last_update_id
    THEN [ob |-> ob, ret |-> TRUE]
    ELSE IF ~is_initial_sync /\ event_data.pu # ob.last_update_id
    THEN [ob |-> [ob EXCEPT !.consecutive_failures = @ + 1,
                            !.is_synchronized = FALSE],
          ret |-> FALSE]
    ELSE [ob |-> [apply_updates(ob, event_data.b, event_data.a)
                    EXCEPT !.update_count = @ + 1,
                           !.consecutive_failures = 0],
          ret |-> TRUE]

\* update_from_depth_event without the test for diffs already covered
update_from_depth_event_no_old_check(ob, event_data, is_initial_sync) ==
    IF ~ob.is_synchronized
    THEN [ob |-> ob, ret |-> FALSE]
    ELSE IF ~is_initial_sync /\ event_data.pu # ob.last_update_id
    THEN [ob |-> [ob EXCEPT !.consecutive_failures = @ + 1,
                            !.is_synchronized = FALSE],
          ret |-> FALSE]
    ELSE [ob |-> [apply_updates(ob, event_data.b, event_data.a)
                    EXCEPT !.last_update_id = event_data.u,
                           !.update_count = @ + 1,
                           !.consecutive_failures = 0],
          ret |-> TRUE]

\* update_from_depth_event that counts a continuity violation and leaves
\* the book marked synchronized
update_from_depth_event_stays_synced(ob, event_data, is_initial_sync) ==
    IF ~ob.is_synchronized
    THEN [ob |-> ob, ret |-> FALSE]
    ELSE IF event_data.u <= ob.last_update_id
    THEN [ob |-> ob, ret |-> TRUE]
    ELSE IF ~is_initial_sync /\ event_data.pu # ob.last_update_id
    THEN [ob |-> [ob EXCEPT !.consecutive_failures = @ + 1],
          ret |-> FALSE]
    ELSE [ob |-> [apply_updates(ob, event_data.b, event_data.a)
                    EXCEPT !.last_update_id = event_data.u,
                           !.update_count = @ + 1,
                           !.consecutive_failures = 0],
          ret |-> TRUE]

\* update_from_depth_event: the book afterwards and the value returned
update_from_depth_event(ob, event_data, is_initial_sync) ==
    IF ~ob.is_synchronized
    THEN [ob |-> ob, ret |-> FALSE]
    ELSE IF event_data.u <= ob.last_update_id
    THEN [ob |-> ob, ret |-> TRUE]
    ELSE IF ~is_initial_sync /\ event_data.pu # ob.last_update_id
    THEN [ob |-> [ob EXCEPT !.consecutive_failures = @ + 1,
                            !.is_synchronized = FALSE],
          ret |-> FALSE]
    ELSE [ob |-> [apply_updates(ob, event_data.b, event_data.a)
                    EXCEPT !.last_update_id = event_data.u,
                           !.update_count = @ + 1,
                           !.consecutive_failures = 0],
          ret |-> TRUE]

----------------------------------------------------------------------------
(* OrderBookManager                                                        *)

\* a deque without maxlen
DequeAppend_unbounded(buffer, event_data) == Append(buffer, event_data)

\* deque(maxlen=BufferMaxLen).append: a full deque drops its oldest entry
DequeAppend(buffer, event_data) ==
    IF Len(buffer) >= BufferMaxLen
    THEN Append(Tail(buffer), event_data)
    ELSE Append(buffer, event_data)

\* deque.extend(events)
RECURSIVE DequeExtend(_, _)
DequeExtend(buffer, events) ==
    IF events = <<>> THEN buffer
    ELSE DequeExtend(DequeAppend(buffer, Head(events)), Tail(events))

\* list.sort(key=lambda x: x['u']) is stable: an event goes after every
\* event whose u is not larger
RECURSIVE InsertByU(_, _)
InsertByU(sorted, e) ==
    IF sorted = <<>> THEN <<e>>
    ELSE IF Head(sorted).u <= e.u
         THEN <<Head(sorted)>> \o InsertByU(Tail(sorted), e)
         ELSE <<e>> \o sorted

\* the sort of _process_buffered_events left out: buffer order is kept
SortByU_unsorted(events) == events

RECURSIVE SortByU(_)
SortByU(events) ==
    IF events = <<>> THEN <<>>
    ELSE InsertByU(SortByU(SubSeq(events, 1, Len(events) - 1)),
                   events[Len(events)])

\* the for loop of _process_buffered_events from index i on, with the
\* buffer already cleared: the book and the buffer when the loop ends
RECURSIVE ReplayFrom(_, _, _, _, _)
ReplayFrom(ob, buffer, buffered_events, i, first_valid_event_found) ==
    IF i > Len(buffered_events) THEN [ob |-> ob, buffer |-> buffer]
    ELSE LET event == buffered_events[i]
         IN  IF event.u < ob.last_update_id
             THEN ReplayFrom(ob, buffer, buffered_events, i + 1,
                             first_valid_event_found)
             ELSE IF ~first_valid_event_found
                     /\ ~(event.U <= ob.last_update_id
                          /\ ob.last_update_id <= event.u)
             THEN ReplayFrom(ob, buffer, buffered_events, i + 1, FALSE)
             ELSE LET r == update_from_depth_event(ob, event, TRUE)
                  IN  IF r.ret
                      THEN ReplayFrom(r.ob, buffer, buffered_events, i + 1,
                                      TRUE)
                      ELSE [ob |-> r.ob,
                            buffer |-> DequeExtend(buffer,
                                SubSeq(buffered_events, i,
                                       Len(buffered_events)))]

\* _process_buffered_events: buffered_events = list(buffer); buffer.clear();
\* sort by u; replay
process_buffered_events(ob, buffer) ==
    ReplayFrom(ob, <<>>, SortByU(buffer), 1, FALSE)

\* a snapshot load that gives way to the other tasks before the replay
load_snapshot_no_replay(ob, buffer, snapshot_data) ==
    [ob |-> initialize_from_snapshot(ob, snapshot_data), buffer |-> buffer]

\* a snapshot load whose replay is not given the buffered diffs
load_snapshot_forgets_buffer(ob, buffer, snapshot_data) ==
    process_buffered_events(initialize_from_snapshot(ob, snapshot_data),
                            <<>>)

\* the body of the try block of initialize_orderbook / resync_orderbook
\* once the snapshot has arrived: load it, then replay the buffer (no
\* suspension point lies between the two)
load_snapshot(ob, buffer, snapshot_data) ==
    process_buffered_events(initialize_from_snapshot(ob, snapshot_data),
                            buffer)

\* handle_depth_event that does not buffer the diff that broke continuity
handle_depth_event_no_buffering(ob, buffer, age, threshold, event_data) ==
    IF ~ob.is_synchronized
    THEN [ob |-> ob, buffer |-> DequeAppend(buffer, event_data), age |-> age]
    ELSE LET r == update_from_depth_event(ob, event_data, FALSE)
         IN  [ob |-> r.ob, buffer |-> buffer, age |-> age]

\* handle_depth_event that drops the diffs of an unsynchronized book
handle_depth_event_drops_unsynced(ob, buffer, age, threshold, event_data) ==
    IF ~ob.is_synchronized
    THEN [ob |-> ob, buffer |-> buffer, age |-> age]
    ELSE LET r == update_from_depth_event(ob, event_data, FALSE)
         IN  IF r.ret
             THEN [ob |-> r.ob, buffer |-> buffer, age |-> age]
             ELSE LET trigger == r.ob.consecutive_failures >= threshold
                                 /\ age = "gt30"
                  IN  [ob |-> IF trigger
                              THEN [r.ob EXCEPT !.resync_count = @ + 1]
                              ELSE r.ob,
                       buffer |-> DequeAppend(buffer, event_data),
                       age |-> IF trigger THEN "le5" ELSE age]

\* handle_depth_event: the book, the buffer and the age of the last resync
\* afterwards
handle_depth_event(ob, buffer, age, threshold, event_data) ==
    IF ~ob.is_synchronized
    THEN [ob |-> ob, buffer |-> DequeAppend(buffer, event_data), age |-> age]
    ELSE LET r == update_from_depth_event(ob, event_data, FALSE)
         IN  IF r.ret
             THEN [ob |-> r.ob, buffer |-> buffer, age |-> age]
             ELSE LET trigger == r.ob.consecutive_failures >= threshold
                                 /\ age = "gt30"
                  IN  [ob |-> IF trigger
                              THEN [r.ob EXCEPT !.resync_count = @ + 1]
                              ELSE r.ob,
                       buffer |-> DequeAppend(buffer, event_data),
                       age |-> IF trigger THEN "le5" ELSE age]

----------------------------------------------------------------------------
(* Inputs: the diffs of the depth stream and the REST snapshots.           *)

Ids == 0..MaxId

\* the id triples <<pu, U, u>> of a diff of the stream: pu < U <= u
IdTriples(ids) ==
    {t \in ids \X ids \X ids : t[1] < t[2] /\ t[2] <= t[3]}

\* the diffs of the process model: every id triple; the diff ending at u
\* sets the bid at price 1 when u is odd and deletes it when u is even
DepthEvents ==
    {[pu |-> t[1], U |-> t[2], u |-> t[3],
      b |-> <<<<1, t[3] % 2>>>>, a |-> <<>>] : t \in IdTriples(Ids)}

\* the diffs the exchange can send next: a diff names the final id of the
\* diff sent before it as its pu
NextDiffs(id) == {e \in DepthEvents : e.pu = id}

\* the snapshots of the process model: one ask, and one bid when
\* lastUpdateId is even
Snapshots ==
    {[lastUpdateId |-> L,
      bids |-> IF L % 2 = 0 THEN <<<<1, 1>>>> ELSE <<>>,
      asks |-> <<<<2, 1>>>>] : L \in Ids}

----------------------------------------------------------------------------
(* The order book process: run() of run_orderbook_manager_process, the     *)
(* WebSocket task and orderbook_sync_monitor, interleaved at their awaits. *)

\* the classes of time.time() - last_resync_time that the code tells apart:
\* at most 5 s, more than 5 s and at most 30 s, more than 30 s
AgeClasses == {"le5", "le30", "gt30"}

\* time passes
Older(age) == IF age = "le5" THEN {"le30"} ELSE {"gt30"}

\* asyncio.sleep(5) has elapsed
AfterSleep5(age) == IF age = "le5" THEN {"le30"} ELSE {age, "gt30"}

\* history: a handler has run; the number of resyncs started is carried on
Op(op, result, L) ==
    [op |-> op, result |-> result, L |-> L, resyncs |-> last_op.resyncs,
     enqueued |-> <<>>]

\* history: nothing has run yet
NoOp ==
    [op |-> "init", result |-> "none", L |-> 0, resyncs |-> 0,
     enqueued |-> <<>>]

\* history: one more resync has been started (counted up to
\* MaxResyncCount + 1)
OneMoreResync(n) == IF n <= MaxResyncCount THEN n + 1 ELSE n

\* history: the diffs applied in Live mode, the last two kept, each with
\* the last_update_id it was applied at
NoteLive(log, event_data, at) ==
    LET entry == [pu |-> event_data.pu, u |-> event_data.u, at |-> at]
    IN  IF log = <<>> THEN <<entry>> ELSE <<log[Len(log)], entry>>

\* whether a buffer holds an event with U <= L <= u
HasValidEvent(buffer, L) ==
    \E i \in 1..Len(buffer) : buffer[i].U <= L /\ L <= buffer[i].u

\* history: what a snapshot met in the buffer
Met(buffer, L) ==
    IF buffer = <<>> THEN "empty_buffer"
    ELSE IF HasValidEvent(buffer, L) THEN "valid_event"
    ELSE "no_valid_event"

Init ==
    /\ orderbook = NewOrderBook
    /\ event_buffer = <<>>
    /\ resync_threshold \in {1, DefaultResyncThreshold}
    /\ resync_age = "gt30"
    /\ pc = "grace"
    /\ stream_id \in Ids
    /\ last_op = NoOp
    /\ live_applied = <<>>
    /\ ExchangeNotStarted
    /\ WriterNotStarted

\* binance_websocket_client_orderbook_only: a depth frame is received and
\* handed to handle_depth_event
HandleDepthEvent(event_data) ==
    LET r == handle_depth_event(orderbook, event_buffer, resync_age,
                                resync_threshold, event_data)
        result ==
            IF ~orderbook.is_synchronized
            THEN IF Len(event_buffer) = BufferMaxLen
                 THEN "buffered_evicting" ELSE "buffered"
            ELSE IF event_data.u <= orderbook.last_update_id THEN "skipped"
            ELSE IF event_data.pu = orderbook.last_update_id THEN "in_order"
            ELSE "gap"
    IN  /\ r.ob.update_count <= MaxUpdateCount
        /\ r.ob.resync_count <= MaxResyncCount
        /\ stream_id' = event_data.u
        /\ orderbook' = r.ob
        /\ event_buffer' = r.buffer
        /\ resync_age' = r.age
        /\ last_op' = Op("handle_depth_event", result, 0)
        /\ live_applied' =
              IF r.ob.update_count # orderbook.update_count
              THEN NoteLive(live_applied, event_data,
                            orderbook.last_update_id)
              ELSE live_applied
        /\ UNCHANGED <<writer_vars, exchange, resync_threshold, pc>>

\* a diff the exchange sent never reaches the client: the connection was
\* down (the reconnect loop of binance_websocket_client_orderbook_only)
FrameLost(event_data) ==
    /\ stream_id' = event_data.u
    /\ last_op' = Op("frame_lost", "none", 0)
    /\ UNCHANGED <<writer_vars, exchange, orderbook, event_buffer,
                   resync_threshold, resync_age, pc, live_applied>>

\* run(): asyncio.sleep(3) is over, initialize_orderbook sends its request
InitializeBegin ==
    /\ pc = "grace"
    /\ pc' = "init_fetch"
    /\ last_op' = Op("initialize_orderbook", "fetching", 0)
    /\ UNCHANGED <<writer_vars, exchange, orderbook, event_buffer,
                   resync_threshold, resync_age, stream_id, live_applied>>

\* initialize_orderbook: the snapshot arrives
InitializeSnapshot(snapshot_data) ==
    LET r == load_snapshot(orderbook, event_buffer, snapshot_data)
    IN  /\ pc = "init_fetch"
        /\ r.ob.update_count <= MaxUpdateCount
        /\ orderbook' = r.ob
        /\ event_buffer' = r.buffer
        /\ pc' = "monitor_sleep"
        /\ last_op' = Op("initialize_orderbook",
                         Met(event_buffer, snapshot_data.lastUpdateId),
                         snapshot_data.lastUpdateId)
        /\ live_applied' = <<>>
        /\ UNCHANGED <<writer_vars, exchange, resync_threshold, resync_age,
                       stream_id>>

\* initialize_orderbook: the request raises, the except block
InitializeFails ==
    /\ pc = "init_fetch"
    /\ orderbook' = [orderbook EXCEPT !.is_synchronized = FALSE]
    /\ pc' = "monitor_sleep"
    /\ last_op' = Op("initialize_orderbook", "fetch_failed", 0)
    /\ UNCHANGED <<writer_vars, exchange, event_buffer, resync_threshold,
                   resync_age, stream_id, live_applied>>

\* orderbook_sync_monitor: await asyncio.sleep(5) returns
MonitorSleep ==
    /\ pc = "monitor_sleep"
    /\ pc' = "monitor_check"
    /\ resync_age' \in AfterSleep5(resync_age)
    /\ last_op' = Op("orderbook_sync_monitor", "woke", 0)
    /\ UNCHANGED <<writer_vars, exchange, orderbook, event_buffer,
                   resync_threshold, stream_id, live_applied>>

\* orderbook_sync_monitor: the check of the book after the sleep, and the
\* start of resync_orderbook up to its request
MonitorCheck ==
    /\ pc = "monitor_check"
    /\ IF /\ ~orderbook.is_synchronized
          /\ orderbook.consecutive_failures >= resync_threshold
          /\ resync_age # "le5"
       THEN /\ orderbook' = [orderbook EXCEPT !.is_synchronized = FALSE]
            /\ pc' = "resync_fetch"
            /\ last_op' = [Op("resync_orderbook", "fetching", 0)
                             EXCEPT !.resyncs = OneMoreResync(@)]
       ELSE /\ pc' = "monitor_sleep"
            /\ last_op' = Op("orderbook_sync_monitor", "checked", 0)
            /\ UNCHANGED orderbook
    /\ UNCHANGED <<writer_vars, exchange, event_buffer, resync_threshold,
                   resync_age, stream_id, live_applied>>

\* resync_orderbook: the snapshot arrives
ResyncSnapshot(snapshot_data) ==
    LET r == load_snapshot(orderbook, event_buffer, snapshot_data)
    IN  /\ pc = "resync_fetch"
        /\ r.ob.update_count <= MaxUpdateCount
        /\ orderbook' = r.ob
        /\ event_buffer' = r.buffer
        /\ pc' = "monitor_sleep"
        /\ last_op' = Op("resync_orderbook",
                         Met(event_buffer, snapshot_data.lastUpdateId),
                         snapshot_data.lastUpdateId)
        /\ live_applied' = <<>>
        /\ UNCHANGED <<writer_vars, exchange, resync_threshold, resync_age,
                       stream_id>>

\* resync_orderbook: the request raises, the except block
ResyncFails ==
    /\ pc = "resync_fetch"
    /\ orderbook' = [orderbook EXCEPT !.is_synchronized = FALSE]
    /\ pc' = "monitor_sleep"
    /\ last_op' = Op("resync_orderbook", "fetch_failed", 0)
    /\ UNCHANGED <<writer_vars, exchange, event_buffer, resync_threshold,
                   resync_age, stream_id, live_applied>>

\* time passes
Tick ==
    /\ resync_age # "gt30"
    /\ resync_age' \in Older(resync_age)
    /\ last_op' = Op("tick", "none", 0)
    /\ UNCHANGED <<writer_vars, exchange, orderbook, event_buffer,
                   resync_threshold, pc, stream_id, live_applied>>

\* get_depth_summary(self, levels: int = 10)
SummaryLevels == 10

\* a summary emitter that does not look at is_synchronized
output_orderbook_summary_unchecked(ob) ==
    <<get_depth_summary(ob, SummaryLevels)>>

\* output_orderbook_summary, the body of its loop for one book: what it
\* puts on data_queue
output_orderbook_summary(ob) ==
    IF ob.is_synchronized THEN <<get_depth_summary(ob, SummaryLevels)>>
    ELSE <<>>

\* the summary task, started by run() when initialize_orderbook has
\* returned: one turn of its loop, between two sleeps of output_interval
OutputOrderbookSummary ==
    /\ pc \in {"monitor_sleep", "monitor_check", "resync_fetch"}
    /\ last_op' = [Op("output_orderbook_summary",
                      IF output_orderbook_summary(orderbook) = <<>>
                      THEN "warning" ELSE "put", 0)
                   EXCEPT !.enqueued = output_orderbook_summary(orderbook)]
    /\ UNCHANGED <<writer_vars, exchange, orderbook, event_buffer,
                   resync_threshold, resync_age, pc, stream_id,
                   live_applied>>

Next ==
    \/ \E event_data \in NextDiffs(stream_id) : HandleDepthEvent(event_data)
    \/ \E event_data \in NextDiffs(stream_id) : FrameLost(event_data)
    \/ InitializeBegin
    \/ \E snapshot_data \in Snapshots : InitializeSnapshot(snapshot_data)
    \/ InitializeFails
    \/ MonitorSleep
    \/ MonitorCheck
    \/ \E snapshot_data \in Snapshots : ResyncSnapshot(snapshot_data)
    \/ ResyncFails
    \/ Tick
    \/ OutputOrderbookSummary

Spec == Init /\ [][Next]_vars

\* The event loop runs every task that is ready: the sleeps of the monitor
\* end, a request ends (with a snapshot or an error, within the timeout of
\* the session) and time passes.
Fairness ==
    /\ WF_vars(InitializeBegin)
    /\ WF_vars(InitializeFails \/ \E s \in Snapshots : InitializeSnapshot(s))
    /\ WF_vars(MonitorSleep)
    /\ WF_vars(MonitorCheck)
    /\ WF_vars(ResyncFails \/ \E s \in Snapshots : ResyncSnapshot(s))
    /\ WF_vars(Tick)

FairSpec == Spec /\ Fairness

----------------------------------------------------------------------------
(* Claims about the synchronisation of the book.                           *)

\* C1: in Live mode a diff with u > last_update_id is applied only if its
\* pu equals last_update_id at that moment, so of two diffs applied one
\* after the other in Live mode with no snapshot load in between, the
\* second names the first: e2.pu = e1.u.
C1_LiveContinuity ==
    /\ \A i \in 1..Len(live_applied) :
          /\ live_applied[i].u > live_applied[i].at
          /\ live_applied[i].pu = live_applied[i].at
    /\ Len(live_applied) = 2 => live_applied[2].pu = live_applied[1].u

\* two diffs have been applied in Live mode since the last snapshot load
C1_Witness ==
    /\ Len(live_applied) = 2
    /\ last_op = Op("handle_depth_event", "in_order", 0)
    /\ orderbook.last_update_id = live_applied[2].u

\* C2: when handle_depth_event receives, for a synchronized book, a diff
\* with u > last_update_id and pu # last_update_id, consecutive_failures
\* grows by one, the book is marked unsynchronized, the diff is appended
\* to the buffer once, and bids, asks, last_update_id and update_count do
\* not change.
C2_GapEffect ==
    [][\A e \in DepthEvents :
          (/\ orderbook.is_synchronized
           /\ e.u > orderbook.last_update_id
           /\ e.pu # orderbook.last_update_id
           /\ HandleDepthEvent(e))
          => /\ orderbook'.consecutive_failures
                  = orderbook.consecutive_failures + 1
             /\ ~orderbook'.is_synchronized
             /\ event_buffer' = Append(event_buffer, e)
             /\ orderbook'.bids = orderbook.bids
             /\ orderbook'.asks = orderbook.asks
             /\ orderbook'.last_update_id = orderbook.last_update_id
             /\ orderbook'.update_count = orderbook.update_count]_vars

\* a diff has just broken the continuity of a synchronized book that holds
\* a bid
C2_Witness ==
    /\ last_op = Op("handle_depth_event", "gap", 0)
    /\ ~orderbook.is_synchronized
    /\ orderbook.consecutive_failures = 1
    /\ Len(event_buffer) = 1
    /\ event_buffer[1].u = stream_id
    /\ DOMAIN orderbook.bids # {}

\* C3: after a diff has broken continuity and desynchronized the book, with
\* the default resync_threshold of 5, the book is eventually synchronized
\* again (the monitor fetches a new snapshot and the buffer is replayed).
C3_EventuallyResynced ==
    (/\ last_op = Op("handle_depth_event", "gap", 0)
     /\ resync_threshold = DefaultResyncThreshold)
    ~> orderbook.is_synchronized

\* C4: when a snapshot with lastUpdateId = L has been loaded and no event
\* of the (non-empty) buffer satisfies U <= L <= u, the snapshot is
\* rejected: the book does not become synchronized on it.
C4_StaleSnapshotRejected ==
    last_op.result = "no_valid_event" => ~orderbook.is_synchronized

\* C5: when a snapshot fetch fails, in initialize_orderbook or in
\* resync_orderbook, the book is unsynchronized and a snapshot fetch is
\* eventually started again.
C5_FetchRetried ==
    /\ [](last_op.result = "fetch_failed" => ~orderbook.is_synchronized)
    /\ last_op.result = "fetch_failed"
          ~> pc \in {"init_fetch", "resync_fetch"}

----------------------------------------------------------------------------
(* The reconcile step on its own: a snapshot arrives at a buffer that      *)
(* holds any events in any order.                                          *)

ReplayIds == 0..ReplayMaxId

\* the events of the replay model: every U <= u from 1 on; the event ending
\* at u sets the ask at price 1 to quantity u
ReplayEvents ==
    {[pu |-> t[2] - 1, U |-> t[2], u |-> t[3],
      b |-> <<>>, a |-> <<<<1, t[3]>>>>] :
        t \in {x \in IdTriples(ReplayIds) : x[1] = x[2] - 1}}

\* the snapshots of the replay model: one ask, at price 2
ReplaySnapshots ==
    {[lastUpdateId |-> L, bids |-> <<>>, asks |-> <<<<2, 1>>>>] :
        L \in ReplayIds}

\* every sequence of at most n elements of S
RECURSIVE SeqsUpTo(_, _)
SeqsUpTo(S, n) ==
    IF n = 0 THEN {<<>>}
    ELSE LET shorter == SeqsUpTo(S, n - 1)
         IN  shorter \cup {Append(q, x) : q \in shorter, x \in S}

\* a book that was in use before a resync
UsedOrderBook ==
    [NewOrderBook EXCEPT !.bids = SetItem(EmptyDict, -1, 1),
                         !.asks = SetItem(EmptyDict, 1, 1),
                         !.last_update_id = 1,
                         !.update_count = 1,
                         !.consecutive_failures = 1]

InitReplay ==
    /\ \/ pc = "init_fetch" /\ orderbook = NewOrderBook
       \/ pc = "resync_fetch" /\ orderbook = UsedOrderBook
    /\ event_buffer \in SeqsUpTo(ReplayEvents, BufferMaxLen)
    /\ resync_threshold = 1
    /\ resync_age = "gt30"
    /\ stream_id = 0
    /\ last_op = NoOp
    /\ live_applied = <<>>
    /\ ExchangeNotStarted
    /\ WriterNotStarted

NextReplay ==
    \/ \E snapshot_data \in ReplaySnapshots : InitializeSnapshot(snapshot_data)
    \/ \E snapshot_data \in ReplaySnapshots : ResyncSnapshot(snapshot_data)

SpecReplay == InitReplay /\ [][NextReplay]_vars

\* the final ids of the buffered events with U <= L <= u
ValidIds(buffer, L) ==
    {buffer[i].u : i \in {j \in 1..Len(buffer) :
                             buffer[j].U <= L /\ L <= buffer[j].u}}

Min(S) == CHOOSE x \in S : \A y \in S : x <= y

Max(S) == CHOOSE x \in S : \A y \in S : x >= y

\* the final ids that the replay applies: those of the events from the
\* first valid event on (in ascending u) that exceed L
AppliedIds(buffer, L) ==
    IF ValidIds(buffer, L) = {} THEN {}
    ELSE {buffer[i].u : i \in {j \in 1..Len(buffer) :
                                  /\ buffer[j].u >= Min(ValidIds(buffer, L))
                                  /\ buffer[j].u > L}}

\* what C6 says of a step that loads snapshot_data
ReconcileResult(snapshot_data) ==
    LET L == snapshot_data.lastUpdateId
        applied == AppliedIds(event_buffer, L)
    IN  /\ event_buffer' = <<>>
        /\ orderbook'.is_synchronized
        /\ orderbook'.last_update_id = Max(applied \cup {L})
        /\ orderbook'.update_count
              = orderbook.update_count + Cardinality(applied)
        /\ orderbook'.asks =
              IF applied = {}
              THEN SetItem(EmptyDict, 2, 1)
              ELSE SetItem(SetItem(EmptyDict, 2, 1), 1, Max(applied))

\* C6: reconcile after a snapshot with lastUpdateId = L: the buffered
\* events are taken in ascending u, those with u < L are dropped, the first
\* one with U <= L <= u (the one of least u) is the first valid event, the
\* events before it are not applied, it and every later event with
\* u > last_update_id are applied without a pu check; afterwards the buffer
\* is empty, the book is synchronized and last_update_id is the largest u
\* applied, or L if none was.
C6_Reconcile ==
    [][\A snapshot_data \in ReplaySnapshots :
          (InitializeSnapshot(snapshot_data) \/ ResyncSnapshot(snapshot_data))
          => ReconcileResult(snapshot_data)]_vars

\* a replay has skipped what precedes the first valid event and applied
\* two events, leaving a gap between them unchecked
C6_Witness ==
    /\ last_op.result = "valid_event"
    /\ orderbook.is_synchronized
    /\ event_buffer = <<>>
    /\ orderbook.update_count = 2
    /\ orderbook.last_update_id = 3
    /\ last_op.L = 1

----------------------------------------------------------------------------
(* The LocalOrderBook on its own: snapshots are loaded and diffs applied   *)
(* in any order, with any price levels.                                    *)

Prices == 1..MaxPrice

Quantities == 0..MaxQty

\* a price level of a diff or a snapshot, as float() parses it
Level == Prices \X Quantities

\* the level list of one side of a diff: at most one level
UpdateLists == {<<>>} \cup {<<l>> : l \in Level}

\* the diffs of the book model: each covers one update id
BookEvents ==
    {[pu |-> u - 1, U |-> u, u |-> u, b |-> b, a |-> a] :
        u \in 1..ReplayMaxId, b \in UpdateLists, a \in UpdateLists}

\* the level lists of one side of a snapshot: at most max_depth levels (the
\* limit of the request), each price once
SnapshotSides ==
    {q \in SeqsUpTo(Level, max_depth) :
        \A i \in 1..Len(q) : \A j \in 1..Len(q) :
            i < j => q[i][1] < q[j][1]}

\* bids come in descending price
Reversed(q) == [i \in 1..Len(q) |-> q[Len(q) + 1 - i]]

BookSnapshots ==
    {[lastUpdateId |-> L, bids |-> Reversed(b), asks |-> a] :
        L \in {0}, b \in SnapshotSides, a \in SnapshotSides}

InitBook ==
    /\ orderbook = NewOrderBook
    /\ event_buffer = <<>>
    /\ resync_threshold = DefaultResyncThreshold
    /\ resync_age = "gt30"
    /\ pc = "book"
    /\ stream_id = 0
    /\ last_op = NoOp
    /\ live_applied = <<>>
    /\ ExchangeNotStarted
    /\ WriterNotStarted

\* orderbook.initialize_from_snapshot(snapshot_data)
BookInitialize(snapshot_data) ==
    /\ pc = "book"
    /\ orderbook' = initialize_from_snapshot(orderbook, snapshot_data)
    /\ last_op' = Op("initialize_from_snapshot", "loaded",
                     snapshot_data.lastUpdateId)
    /\ UNCHANGED <<writer_vars, exchange, event_buffer, resync_threshold,
                   resync_age, pc, stream_id, live_applied>>

\* orderbook.update_from_depth_event(event_data, is_initial_sync)
BookUpdate(event_data, is_initial_sync) ==
    LET r == update_from_depth_event(orderbook, event_data, is_initial_sync)
    IN  /\ pc = "book"
        /\ r.ob.update_count <= MaxUpdateCount
        /\ orderbook' = r.ob
        /\ last_op' = Op("update_from_depth_event",
                         IF r.ob.update_count # orderbook.update_count
                         THEN "applied" ELSE "not_applied", 0)
        /\ UNCHANGED <<writer_vars, exchange, event_buffer, resync_threshold,
                       resync_age, pc, stream_id, live_applied>>

NextBook ==
    \/ \E snapshot_data \in BookSnapshots : BookInitialize(snapshot_data)
    \/ \E event_data \in BookEvents, is_initial_sync \in BOOLEAN :
          BookUpdate(event_data, is_initial_sync)

SpecBook == InitBook /\ [][NextBook]_vars

\* the prices of the bids held (the keys are the negated prices)
BidPrices(ob) == {-k : k \in DOMAIN ob.bids}

AskPrices(ob) == DOMAIN ob.asks

\* the n highest, respectively lowest, prices of a set
HighestPrices(S, n) == {p \in S : Cardinality({q \in S : q > p}) < n}

LowestPrices(S, n) == {p \in S : Cardinality({q \in S : q < p}) < n}

\* a list of (price, qty) in strictly descending, respectively ascending, price
DescendingPrice(q) ==
    \A i \in 1..Len(q) : \A j \in 1..Len(q) : i < j => q[i][1] > q[j][1]

AscendingPrice(q) ==
    \A i \in 1..Len(q) : \A j \in 1..Len(q) : i < j => q[i][1] < q[j][1]

\* C9: whatever the book holds, get_best_bid_ask returns the highest bid
\* price and the lowest ask price, and get_depth_summary(levels) lists the
\* `levels` highest bids in descending price and the `levels` lowest asks in
\* ascending price.
C9_BestAndTopLevels ==
    LET best == get_best_bid_ask(orderbook)
    IN  /\ BidPrices(orderbook) # {} => best[1] = Max(BidPrices(orderbook))
        /\ AskPrices(orderbook) # {} => best[2] = Min(AskPrices(orderbook))
        /\ \A levels \in 1..max_depth :
              LET summary == get_depth_summary(orderbook, levels)
              IN  /\ DescendingPrice(summary.top_bids)
                  /\ {summary.top_bids[i][1] :
                         i \in 1..Len(summary.top_bids)}
                        = HighestPrices(BidPrices(orderbook), levels)
                  /\ AscendingPrice(summary.top_asks)
                  /\ {summary.top_asks[i][1] :
                         i \in 1..Len(summary.top_asks)}
                        = LowestPrices(AskPrices(orderbook), levels)

\* a side after its levels were updated, cut to max_depth levels by
\* dropping the lowest-priced bids, respectively the highest-priced asks
KeepBestBids(d) ==
    LET keep == {k \in DOMAIN d :
                    -k \in HighestPrices({-j : j \in DOMAIN d}, max_depth)}
    IN  [k \in keep |-> d[k]]

KeepBestAsks(d) ==
    LET keep == LowestPrices(DOMAIN d, max_depth) IN [k \in keep |-> d[k]]

\* C10: an applied diff leaves each side as its updated levels cut to
\* max_depth by removing the lowest-priced bids and the highest-priced
\* asks; a bid inserted above the others is therefore kept.
C10_TrimKeepsBest ==
    [][\A event_data \in BookEvents : \A is_initial_sync \in BOOLEAN :
          (/\ BookUpdate(event_data, is_initial_sync)
           /\ last_op'.result = "applied")
          => /\ orderbook'.bids
                  = KeepBestBids(UpdateLevels(orderbook.bids,
                                              event_data.b, -1))
             /\ orderbook'.asks
                  = KeepBestAsks(UpdateLevels(orderbook.asks,
                                              event_data.a, 1))]_vars

----------------------------------------------------------------------------
(* The CSV writers: writer_process, which ProcessManager starts on its one *)
(* data_queue, and multi_queue_writer_process, which batches.              *)

\* symbol_queues.items(): the symbols in the order the writer polls them
SymbolOrder == <<"BTCUSDT", "ETHUSDT">>

Symbols == {SymbolOrder[i] : i \in 1..Len(SymbolOrder)}

\* the kinds of record: aggtrade is flushed by a direct CSV function
\* (as depth and kline), orderbook_summary by a pandas one
StreamTypes == {"aggtrade", "orderbook_summary"}

\* what a write to a file does: every line is written; the open fails and
\* nothing is written; the file is created and the write of its first
\* line fails; the first row, or the first two, are written and the write
\* then fails before the last row
FlushOutcomes == {"ok", "error", "no_header", "partial_1", "partial_2"}

\* the stop sentinel, data_queue.put(None)
None == [stream_type |-> "None", symbol |-> "None", id |-> 0]

\* the keys of batches and of the files: get_daily_filename(prefix, symbol)
BatchKeys == StreamTypes \X Symbols

EmptyBatches == [k \in BatchKeys |-> <<>>]

\* the ids of a list of records
RecordIds(records) == [i \in 1..Len(records) |-> records[i].id]

\* writer.writeheader(): the header line of a file, among the record ids
\* of its rows
HeaderLine == 0

\* a file that os.path.exists() does not find
NoFile == [exists |-> FALSE, lines |-> <<>>]

NoFiles == [k \in BatchKeys |-> NoFile]

\* the rows a failing write leaves in the file: the first one or two, and
\* never all of them
PartialRows(rows, outcome) ==
    LET n == IF outcome = "partial_1" THEN 1
             ELSE IF outcome = "partial_2" THEN 2
             ELSE 0
    IN  IF rows = <<>> THEN <<>>
        ELSE Take(rows, IF n < Len(rows) THEN n ELSE Len(rows) - 1)

\* ensure_csv_header(filepath, fields): a file that does not exist is
\* created with the header; a file that exists is left alone
ensure_csv_header(file, outcome) ==
    IF file.exists THEN [file |-> file, raised |-> FALSE]
    ELSE IF outcome = "error" THEN [file |-> file, raised |-> TRUE]
    ELSE IF outcome = "no_header"
    THEN [file |-> [exists |-> TRUE, lines |-> <<>>], raised |-> TRUE]
    ELSE [file |-> [exists |-> TRUE, lines |-> <<HeaderLine>>],
          raised |-> FALSE]

\* append_csv_rows(filepath, rows, fields): the file afterwards and
\* whether the call raises
append_csv_rows(file, rows, outcome) ==
    LET h == ensure_csv_header(file, outcome)
        written == IF outcome = "ok" THEN rows
                   ELSE PartialRows(rows, outcome)
    IN  IF rows = <<>> THEN [file |-> file, raised |-> FALSE]
        ELSE IF h.raised THEN h
        ELSE [file |-> [h.file EXCEPT !.lines = @ \o RecordIds(written)],
              raised |-> outcome # "ok"]

\* save_to_csv(df, filename): df.to_csv in append mode, with the header if
\* the file does not exist, in a try block that prints the exception and
\* returns
save_to_csv(file, rows, outcome) ==
    LET header == IF file.exists THEN <<>> ELSE <<HeaderLine>>
        written == IF outcome = "ok" THEN header \o RecordIds(rows)
                   ELSE IF outcome \in {"error", "no_header"} THEN <<>>
                   ELSE header \o RecordIds(PartialRows(rows, outcome))
    IN  [file |-> [exists |-> file.exists \/ outcome # "error",
                   lines |-> file.lines \o written],
         raised |-> FALSE]

\* _flush_aggtrade_batch_optimized / _flush_orderbook_batch
flush_batch(stream_type, file, records, outcome) ==
    IF stream_type = "aggtrade" THEN append_csv_rows(file, records, outcome)
    ELSE save_to_csv(file, records, outcome)

\* the try block around a flush: records.clear() is reached unless the
\* flush raised
AfterFlush(stream_type, file, records, outcome) ==
    IF flush_batch(stream_type, file, records, outcome).raised THEN records
    ELSE <<>>

\* flush_batches(): every non-empty batch is flushed, each with its outcome
flush_batches(bs, files, outcomes) ==
    [batches |-> [k \in BatchKeys |->
                    IF bs[k] = <<>> THEN <<>>
                    ELSE AfterFlush(k[1], files[k], bs[k], outcomes[k])],
     csv_files |-> [k \in BatchKeys |->
                    IF bs[k] = <<>> THEN files[k]
                    ELSE flush_batch(k[1], files[k], bs[k],
                                     outcomes[k]).file]]

\* the outcomes of one flush_batches(): one per non-empty batch
OutcomesFor(bs) ==
    LET flushed == {k \in BatchKeys : bs[k] # <<>>}
    IN  {[k \in BatchKeys |-> IF k \in flushed THEN o[k] ELSE "ok"] :
            o \in [flushed -> FlushOutcomes]}

\* the number of failed writes among these outcomes
Failures(outcomes) ==
    Cardinality({k \in DOMAIN outcomes : outcomes[k] # "ok"})

\* the writer process is alive: it is at some place of its loop (it has not
\* left the loop on the stop sentinel, nor been ended by a KeyboardInterrupt
\* or by terminate())
WriterRunning == writer_pc.at \in {"get", "check_time", "poll"}

\* the names of the queues the writer reads
QueueNames(target) ==
    IF target = "writer_process" THEN {"data_queue"} ELSE Symbols

\* the order book is not part of the writer model
BookNotStarted ==
    /\ orderbook = NewOrderBook
    /\ event_buffer = <<>>
    /\ resync_threshold = DefaultResyncThreshold
    /\ resync_age = "gt30"
    /\ pc = "writer"
    /\ ExchangeNotStarted
    /\ stream_id = 0
    /\ last_op = NoOp
    /\ live_applied = <<>>

InitWriter ==
    /\ BookNotStarted
    /\ writer_target \in {"writer_process", "multi_queue_writer_process"}
    /\ symbol_queues = [q \in QueueNames(writer_target) |-> <<>>]
    /\ batches = EmptyBatches
    /\ csv_files = NoFiles
    /\ writer_pc = IF writer_target = "writer_process"
                   THEN [at |-> "get", i |-> 0]
                   ELSE [at |-> "check_time", i |-> 0]
    /\ flush_due = FALSE
    /\ published = 0
    /\ stop_sent = FALSE
    /\ taken = {}
    /\ stop_received = FALSE
    /\ io_errors = 0
    /\ manager = ManagerNotStarted

\* a queue that lets every put through
Full_never(queue) == FALSE

\* multiprocessing.Queue(maxsize=queue_maxsize): put() blocks while the
\* queue holds maxsize items
Full(queue) == Len(queue) >= queue_maxsize

\* a stream client: data_queue.put((stream_type, data)); put blocks while
\* the queue is full
Publish(q, stream_type, symbol) ==
    /\ ~stop_sent
    /\ published < MaxRecords
    /\ ~Full(symbol_queues[q])
    /\ symbol_queues' =
          [symbol_queues EXCEPT ![q] =
              Append(@, [stream_type |-> stream_type, symbol |-> symbol,
                         id |-> published + 1])]
    /\ published' = published + 1
    /\ UNCHANGED <<book_vars, writer_target, batches, csv_files, writer_pc,
                   flush_due, stop_sent, taken, stop_received, io_errors,
                   manager>>

\* ProcessManager.shutdown: self.data_queue.put(None), after the stream
\* clients were terminated
PutSentinel(q) ==
    /\ ~stop_sent
    /\ ~Full(symbol_queues[q])
    /\ symbol_queues' = [symbol_queues EXCEPT ![q] = Append(@, None)]
    /\ stop_sent' = TRUE
    /\ UNCHANGED <<book_vars, writer_target, batches, csv_files, writer_pc,
                   flush_due, published, taken, stop_received, io_errors,
                   manager>>

\* writer_process: one turn of its loop. data_queue.get() blocks until an
\* item is there; None breaks the loop, a record becomes one row through
\* save_to_csv.
WriterProcessGet(outcome) ==
    LET item == Head(symbol_queues["data_queue"])
        file == <<item.stream_type, item.symbol>>
    IN  /\ writer_target = "writer_process"
        /\ writer_pc.at = "get"
        /\ symbol_queues["data_queue"] # <<>>
        /\ io_errors' = IF item # None /\ outcome # "ok"
                        THEN io_errors + 1 ELSE io_errors
        /\ io_errors' <= MaxIoErrors
        /\ item = None => outcome = "ok"
        /\ symbol_queues' = [symbol_queues EXCEPT !["data_queue"] = Tail(@)]
        /\ IF item = None
           THEN /\ writer_pc' = [at |-> "exited", i |-> 0]
                /\ stop_received' = TRUE
                /\ UNCHANGED <<csv_files, taken>>
           ELSE /\ csv_files' =
                      [csv_files EXCEPT ![file] =
                          save_to_csv(@, <<item>>, outcome).file]
                /\ taken' = taken \cup {item.id}
                /\ UNCHANGED <<writer_pc, stop_received>>
        /\ UNCHANGED <<book_vars, writer_target, batches, flush_due,
                       published, stop_sent, manager>>

\* multi_queue_writer_process: the top of the loop, the flush on time
CheckTime(outcomes) ==
    LET r == flush_batches(batches, csv_files, outcomes)
    IN  /\ writer_target = "multi_queue_writer_process"
        /\ writer_pc.at = "check_time"
        /\ IF flush_due
           THEN /\ batches' = r.batches
                /\ csv_files' = r.csv_files
                /\ flush_due' = FALSE
                /\ io_errors' = io_errors + Failures(outcomes)
                /\ io_errors' <= MaxIoErrors
           ELSE /\ Failures(outcomes) = 0
                /\ UNCHANGED <<batches, csv_files, flush_due, io_errors>>
        /\ writer_pc' = [at |-> "poll", i |-> 1]
        /\ UNCHANGED <<book_vars, writer_target, symbol_queues, published,
                       stop_sent, taken, stop_received, manager>>

\* multi_queue_writer_process: one turn of the for loop over the queues.
\* get_nowait() raises queue.Empty on an empty queue; None is reported and
\* skipped; a record joins its batch, which is flushed when it has
\* batch_size records.
Poll(outcome) ==
    LET symbol == SymbolOrder[writer_pc.i]
        item == Head(symbol_queues[symbol])
        key == <<item.stream_type, symbol>>
        records == Append(batches[key], item)
    IN  /\ writer_target = "multi_queue_writer_process"
        /\ writer_pc.at = "poll"
        /\ writer_pc' = IF writer_pc.i < Len(SymbolOrder)
                        THEN [at |-> "poll", i |-> writer_pc.i + 1]
                        ELSE [at |-> "check_time", i |-> 0]
        /\ io_errors' =
              IF /\ symbol_queues[symbol] # <<>>
                 /\ item # None
                 /\ Len(records) >= batch_size
              THEN io_errors + (IF outcome = "ok" THEN 0 ELSE 1)
              ELSE io_errors
        /\ io_errors' <= MaxIoErrors
        /\ io_errors' = io_errors => outcome = "ok"
        /\ IF symbol_queues[symbol] = <<>>
           THEN UNCHANGED <<symbol_queues, batches, csv_files, taken,
                            stop_received>>
           ELSE /\ symbol_queues' = [symbol_queues EXCEPT ![symbol] = Tail(@)]
                /\ IF item = None
                   THEN /\ stop_received' = TRUE
                        /\ UNCHANGED <<batches, csv_files, taken>>
                   ELSE /\ taken' = taken \cup {item.id}
                        /\ UNCHANGED stop_received
                        /\ IF Len(records) >= batch_size
                           THEN /\ batches' =
                                     [batches EXCEPT ![key] =
                                         AfterFlush(item.stream_type,
                                                    csv_files[key],
                                                    records, outcome)]
                                /\ csv_files' =
                                     [csv_files EXCEPT ![key] =
                                         flush_batch(item.stream_type, @,
                                                     records, outcome).file]
                           ELSE /\ batches' =
                                     [batches EXCEPT ![key] = records]
                                /\ UNCHANGED csv_files
        /\ UNCHANGED <<book_vars, writer_target, flush_due, published,
                       stop_sent, manager>>

\* flush_interval seconds have passed since last_flush
TimePasses ==
    /\ writer_target = "multi_queue_writer_process"
    /\ WriterRunning
    /\ ~flush_due
    /\ flush_due' = TRUE
    /\ UNCHANGED <<book_vars, writer_target, symbol_queues, batches,
                   csv_files, writer_pc, published, stop_sent, taken,
                   stop_received, io_errors, manager>>

\* KeyboardInterrupt in the writer: multi_queue_writer_process flushes its
\* batches and breaks; writer_process does not catch it and ends
Interrupt(outcomes) ==
    LET r == flush_batches(batches, csv_files, outcomes)
    IN  /\ WriterRunning
        /\ writer_pc' = [at |-> "interrupted", i |-> 0]
        /\ IF writer_target = "multi_queue_writer_process"
           THEN /\ batches' = r.batches
                /\ csv_files' = r.csv_files
                /\ io_errors' = io_errors + Failures(outcomes)
                /\ io_errors' <= MaxIoErrors
           ELSE /\ Failures(outcomes) = 0
                /\ UNCHANGED <<batches, csv_files, io_errors>>
        /\ UNCHANGED <<book_vars, writer_target, symbol_queues, flush_due,
                       published, stop_sent, taken, stop_received, manager>>

\* the records that are put on queue q, as <<stream_type, symbol>>: every
\* record goes to the one data_queue; a symbol's queue gets the stream
\* records of its symbol, and the queue of symbols[0] is the
\* orderbook_output_queue, which gets the summaries of every symbol
PutOn(q) ==
    IF q \notin Symbols THEN StreamTypes \X Symbols
    ELSE {<<"aggtrade", q>>}
         \cup (IF q = SymbolOrder[1]
               THEN {"orderbook_summary"} \X Symbols ELSE {})

NextWriter ==
    \/ \E q \in DOMAIN symbol_queues : \E r \in PutOn(q) :
          Publish(q, r[1], r[2])
    \/ \E q \in DOMAIN symbol_queues : PutSentinel(q)
    \/ \E outcome \in FlushOutcomes : WriterProcessGet(outcome)
    \/ \E outcomes \in OutcomesFor(batches) : CheckTime(outcomes)
    \/ \E outcome \in FlushOutcomes : Poll(outcome)
    \/ TimePasses
    \/ \E outcomes \in OutcomesFor(batches) : Interrupt(outcomes)

SpecWriter == InitWriter /\ [][NextWriter]_vars

\* The writer is a process of its own: its loop keeps turning, and time
\* passes. Nobody is bound to interrupt it.
FairnessWriter ==
    /\ WF_vars(\E outcome \in FlushOutcomes : WriterProcessGet(outcome))
    /\ WF_vars(\E outcomes \in OutcomesFor(batches) : CheckTime(outcomes))
    /\ WF_vars(\E outcome \in FlushOutcomes : Poll(outcome))
    /\ WF_vars(TimePasses)

FairSpecWriter == SpecWriter /\ FairnessWriter

\* the number of rows of all files that hold record id
RowsOf(id) ==
    LET Count(q) == Cardinality({i \in 1..Len(q) : q[i] = id})
        RECURSIVE Sum(_)
        Sum(K) == IF K = {} THEN 0
                  ELSE LET k == CHOOSE x \in K : TRUE
                       IN  Count(csv_files[k].lines) + Sum(K \ {k})
    IN  Sum(BatchKeys)

\* the record is still in a batch of a running writer
Held(id) ==
    /\ WriterRunning
    /\ \E k \in BatchKeys : \E i \in 1..Len(batches[k]) : batches[k][i].id = id

\* C7: a record the writer has taken is either in exactly one CSV row, or
\* not yet in any row and still in a batch: it is never in two rows and
\* never gone, whatever the flushes and their errors.
C7_ExactlyOnce ==
    \A id \in taken :
        \/ RowsOf(id) = 1 /\ ~Held(id)
        \/ RowsOf(id) = 0 /\ Held(id)

\* C8: once the writer has taken the stop sentinel, it eventually has
\* left its loop with every batch written out (unless a KeyboardInterrupt
\* ends it first).
C8_StopDrainsAndExits ==
    stop_received ~> \/ writer_pc.at = "exited" /\ batches = EmptyBatches
                     \/ writer_pc.at = "interrupted"

----------------------------------------------------------------------------
(* Invariants of the book.                                                 *)

\* C11: after any sequence of snapshot loads and applied diffs, each side
\* of the book holds at most max_depth levels.
C11_DepthBounded ==
    /\ Cardinality(DOMAIN orderbook.bids) <= max_depth
    /\ Cardinality(DOMAIN orderbook.asks) <= max_depth

\* a diff has just been applied and both sides are full
C11_Witness ==
    /\ last_op = Op("update_from_depth_event", "applied", 0)
    /\ Cardinality(DOMAIN orderbook.bids) = max_depth
    /\ Cardinality(DOMAIN orderbook.asks) = max_depth

----------------------------------------------------------------------------
(* The order book process fed by an exchange that keeps a book of its own: *)
(* every update id changes one price level, the depth stream carries the   *)
(* diff of every update id, and a snapshot is the exchange's book as it    *)
(* was after some update id. Every quantity is 1.                          *)

\* update ids of the exchange: 0..MarketMaxId
MarketMaxId == 3

\* no bid is at or above an ask
Uncrossed(bids, asks) == \A b \in bids : \A a \in asks : b < a

\* the books the exchange can have: sets of bid and of ask prices
ExchangeBooks ==
    {book \in [bids : SUBSET Prices, asks : SUBSET Prices] :
        Uncrossed(book.bids, book.asks)}

\* the last update id of the exchange
ExchangeId == Len(exchange.diffs)

\* the exchange's book after update id k
BookAt(k) == exchange.books[k + 1]

\* the changes of one update id: one price appears on, or leaves, one side
Changes(book) ==
    {c \in [side : {"b", "a"}, price : Prices, qty : {0, 1}] :
        LET levels == IF c.side = "b" THEN book.bids ELSE book.asks
        IN  IF c.qty = 0 THEN c.price \in levels ELSE c.price \notin levels}

\* the book after a change
Changed(book, c) ==
    LET levels == IF c.side = "b" THEN book.bids ELSE book.asks
        after == IF c.qty = 0 THEN levels \ {c.price}
                 ELSE levels \cup {c.price}
    IN  IF c.side = "b" THEN [book EXCEPT !.bids = after]
        ELSE [book EXCEPT !.asks = after]

\* the depthUpdate frame of update id `id` for a change
DiffOf(id, c) ==
    [pu |-> id - 1, U |-> id, u |-> id,
     b |-> IF c.side = "b" THEN <<<<c.price, c.qty>>>> ELSE <<>>,
     a |-> IF c.side = "a" THEN <<<<c.price, c.qty>>>> ELSE <<>>]

\* GET /fapi/v1/depth?limit=1000 answered with the book after update id k:
\* the best levels of each side, bids from the highest price down, asks
\* from the lowest price up, at most max_depth (the limit) of each
SnapshotAt(k) ==
    LET book == BookAt(k)
        bids == Take(SortedKeys([p \in book.bids |-> -p]), max_depth)
        asks == Take(SortedKeys([p \in book.asks |-> p]), max_depth)
    IN  [lastUpdateId |-> k,
         bids |-> [i \in 1..Len(bids) |-> <<bids[i], 1>>],
         asks |-> [i \in 1..Len(asks) |-> <<asks[i], 1>>]]

\* the diff the client's connection is due next, if the exchange has sent it
PendingDiffs ==
    IF stream_id < ExchangeId THEN {exchange.diffs[stream_id + 1]} ELSE {}

InitMarket ==
    /\ orderbook = NewOrderBook
    /\ event_buffer = <<>>
    /\ resync_threshold = 1
    /\ resync_age = "gt30"
    /\ pc = "grace"
    /\ stream_id = 0
    /\ \E book \in ExchangeBooks :
          /\ book.bids # {} /\ book.asks # {}
          /\ exchange = [books |-> <<book>>, diffs |-> <<>>]
    /\ last_op = NoOp
    /\ live_applied = <<>>
    /\ WriterNotStarted

\* the exchange matches or books an order: its book changes at one level
ExchangeChange(c) ==
    LET book == Changed(BookAt(ExchangeId), c)
    IN  /\ ExchangeId < MarketMaxId
        /\ book \in ExchangeBooks
        /\ exchange' =
              [books |-> Append(exchange.books, book),
               diffs |-> Append(exchange.diffs, DiffOf(ExchangeId + 1, c))]
        /\ UNCHANGED <<writer_vars, orderbook, event_buffer,
                       resync_threshold, resync_age, pc, stream_id, last_op,
                       live_applied>>

NextMarket ==
    \/ \E c \in Changes(BookAt(ExchangeId)) : ExchangeChange(c)
    \/ \E event_data \in PendingDiffs : HandleDepthEvent(event_data)
    \/ \E event_data \in PendingDiffs : FrameLost(event_data)
    \/ InitializeBegin
    \/ \E k \in 0..ExchangeId : InitializeSnapshot(SnapshotAt(k))
    \/ MonitorSleep
    \/ MonitorCheck
    \/ \E k \in 0..ExchangeId : ResyncSnapshot(SnapshotAt(k))

SpecMarket == InitMarket /\ [][NextMarket]_vars

\* C12: whenever the book is synchronized and has bids and asks, its
\* highest bid price is below its lowest ask price.
C12_NeverCrossed ==
    (/\ orderbook.is_synchronized
     /\ BidPrices(orderbook) # {}
     /\ AskPrices(orderbook) # {})
    => Max(BidPrices(orderbook)) < Min(AskPrices(orderbook))

----------------------------------------------------------------------------
(* Frame conditions of the order book process.                             *)

\* the step applied at least one diff to the book
AppliedSome == orderbook'.update_count # orderbook.update_count

\* the step loaded a snapshot (and replayed the buffer)
LoadedSnapshot ==
    last_op'.result \in {"empty_buffer", "valid_event", "no_valid_event"}

\* C13: last_update_id is the u of the diff applied last, or the
\* lastUpdateId of the snapshot when no diff was applied since it was
\* loaded: a Live diff that is applied sets it to its u, which is above
\* the old value; a snapshot load sets it to lastUpdateId, or to the u of a
\* buffered event above it when the replay applied events; every other
\* step leaves it as it is.
C13_LastUpdateId ==
    [][IF last_op'.op = "handle_depth_event"
       THEN IF AppliedSome
            THEN /\ orderbook'.last_update_id = stream_id'
                 /\ orderbook'.last_update_id > orderbook.last_update_id
            ELSE orderbook'.last_update_id = orderbook.last_update_id
       ELSE IF LoadedSnapshot
       THEN IF AppliedSome
            THEN /\ orderbook'.last_update_id > last_op'.L
                 /\ \E i \in 1..Len(event_buffer) :
                       event_buffer[i].u = orderbook'.last_update_id
            ELSE orderbook'.last_update_id = last_op'.L
       ELSE orderbook'.last_update_id = orderbook.last_update_id]_vars

\* two diffs were applied in Live mode after a snapshot load, and
\* last_update_id is the u of the second
C13_Witness ==
    /\ last_op = Op("handle_depth_event", "in_order", 0)
    /\ orderbook.is_synchronized
    /\ Len(live_applied) = 2
    /\ orderbook.last_update_id = live_applied[2].u
    /\ orderbook.last_update_id = stream_id

\* C14: a diff with u <= last_update_id that reaches a synchronized book
\* changes nothing: in Live handling the book and the buffer stay as they
\* are; in the replay after a snapshot load, a buffer that holds only such
\* diffs leaves the book exactly as the snapshot made it, and the buffer
\* empty.
C14_OldDiffIgnored ==
    [][/\ \A event_data \in NextDiffs(stream_id) :
             (/\ HandleDepthEvent(event_data)
              /\ orderbook.is_synchronized
              /\ event_data.u <= orderbook.last_update_id)
             => /\ orderbook' = orderbook
                /\ event_buffer' = event_buffer
       /\ \A snapshot_data \in Snapshots :
             (/\ \/ InitializeSnapshot(snapshot_data)
                 \/ ResyncSnapshot(snapshot_data)
              /\ \A i \in 1..Len(event_buffer) :
                    event_buffer[i].u <= snapshot_data.lastUpdateId)
             => /\ orderbook' =
                      initialize_from_snapshot(orderbook, snapshot_data)
                /\ event_buffer' = <<>>]_vars

\* a Live diff with u <= last_update_id has just been offered to a
\* synchronized book that holds levels
C14_Witness ==
    /\ last_op = Op("handle_depth_event", "skipped", 0)
    /\ orderbook.is_synchronized
    /\ stream_id <= orderbook.last_update_id
    /\ DOMAIN orderbook.bids # {}
    /\ event_buffer = <<>>

\* C15: while the book is not synchronized, a diff passed to
\* handle_depth_event becomes the newest event of the buffer (behind the
\* events already there, the oldest of which leaves a full buffer) and the
\* book is not changed.
C15_UnsyncedBuffers ==
    [][\A event_data \in NextDiffs(stream_id) :
          (HandleDepthEvent(event_data) /\ ~orderbook.is_synchronized)
          => /\ orderbook' = orderbook
             /\ \/ event_buffer' = Append(event_buffer, event_data)
                \/ /\ Len(event_buffer) = BufferMaxLen
                   /\ event_buffer' = Append(Tail(event_buffer), event_data)]_vars

\* a book that had been loaded is out of sync and a second diff has just
\* been buffered
C15_Witness ==
    /\ last_op = Op("handle_depth_event", "buffered", 0)
    /\ ~orderbook.is_synchronized
    /\ DOMAIN orderbook.asks # {}
    /\ Len(event_buffer) = 2
    /\ event_buffer[2].u = stream_id

\* C16: the event buffer never holds more than its capacity, and a diff
\* that arrives at a full buffer takes the place of the oldest event: the
\* others keep their order and the new diff is the last.
C16_BufferBounded ==
    [][/\ Len(event_buffer') <= BufferMaxLen
       /\ \A event_data \in NextDiffs(stream_id) :
             (HandleDepthEvent(event_data)
              /\ Len(event_buffer) = BufferMaxLen)
             => event_buffer' = Append(Tail(event_buffer), event_data)]_vars

\* a diff has just arrived at a full buffer
C16_Witness ==
    /\ last_op = Op("handle_depth_event", "buffered_evicting", 0)
    /\ Len(event_buffer) = BufferMaxLen
    /\ event_buffer[BufferMaxLen].u = stream_id
    /\ event_buffer[1].pu > 0

\* C17: with the default resync_threshold of 5, continuity violations that
\* follow one another are counted: once a first violation has been
\* counted, every further diff that does not
\* continue the book (pu # last_update_id, u > last_update_id) raises
\* consecutive_failures by one, and the violation that brings it to
\* resync_threshold more than 30 s after the last resync starts a resync
\* (resync_count is raised).
C17_ViolationsCounted ==
    [][\A event_data \in NextDiffs(stream_id) :
          (/\ HandleDepthEvent(event_data)
           /\ resync_threshold = DefaultResyncThreshold
           /\ orderbook.consecutive_failures >= 1
           /\ event_data.u > orderbook.last_update_id
           /\ event_data.pu # orderbook.last_update_id)
          => /\ orderbook'.consecutive_failures
                  = orderbook.consecutive_failures + 1
             /\ (/\ orderbook'.consecutive_failures >= resync_threshold
                 /\ resync_age = "gt30")
                => orderbook'.resync_count = orderbook.resync_count + 1]_vars

\* C18: resync_count is the number of resyncs started (a resync that
\* handle_depth_event has counted and the monitor has not yet started may
\* be one ahead).
C18_ResyncsCounted ==
    last_op.resyncs <= MaxResyncCount
    => \/ orderbook.resync_count = last_op.resyncs
       \/ orderbook.resync_count = last_op.resyncs + 1


\* C19: once the stream client has been through its reconnect loop (a diff
\* was sent while the connection was down) the book is not synchronized.
C19_ReconnectDesyncs ==
    last_op.op = "frame_lost" => ~orderbook.is_synchronized


\* C20: a batch is flushed and emptied as soon as it has batch_size
\* records, so no batch of the batching writer ever holds batch_size or
\* more records once the record has been handled.
C20_SizeTriggerEmpties ==
    \A key \in BatchKeys : Len(batches[key]) < batch_size


\* C21: every record placed in a batch of the batching writer is
\* eventually written to its file while the writer keeps running, through
\* the flush on time if not through the flush on size.
C21_BatchedIsWritten ==
    \A id \in 1..MaxRecords :
        Held(id) ~> (RowsOf(id) >= 1 \/ ~WriterRunning)


\* C22: a file of the append writer that holds anything has the header as
\* its first line and nowhere else.
C22_HeaderOnceFirst ==
    writer_target = "multi_queue_writer_process"
    => \A k \in BatchKeys :
          LET lines == csv_files[k].lines
          IN  (k[1] = "aggtrade" /\ lines # <<>>)
              => /\ lines[1] = HeaderLine
                 /\ \A i \in 2..Len(lines) : lines[i] # HeaderLine


\* C23: whatever flushes have failed, every record the batching writer has
\* taken is in a file or still in its batch, to be written by a later
\* flush: none is dropped.
C23_NoRecordDropped ==
    (writer_target = "multi_queue_writer_process" /\ WriterRunning)
    => \A id \in taken : RowsOf(id) >= 1 \/ Held(id)


\* C24: the rows of the file of one stream (the aggtrade file of a symbol
\* holds the records of one stream only) are in the order in which the
\* stream client published them, which is the order of their ids.
C24_RowsInPublishOrder ==
    \A k \in BatchKeys :
        LET lines == csv_files[k].lines
        IN  k[1] = "aggtrade"
            => \A i, j \in 1..Len(lines) :
                  (i < j /\ lines[i] # HeaderLine /\ lines[j] # HeaderLine)
                  => lines[i] <= lines[j]


\* C25: a queue of the bus never holds more than queue_maxsize items; a
\* put happens only when there is room and appends its record to the
\* queue; an item leaves a queue only from its head, taken by the writer.
C25_BoundedBus ==
    [][\A q \in DOMAIN symbol_queues :
          LET queue == symbol_queues[q]
              after == symbol_queues'[q]
          IN  /\ Len(after) <= queue_maxsize
              /\ Len(after) > Len(queue)
                 => /\ Len(queue) < queue_maxsize
                    /\ after = Append(queue, after[Len(after)])
                    /\ \/ after[Len(after)] = None
                       \/ /\ published' = published + 1
                          /\ after[Len(after)].id = published'
              /\ Len(after) < Len(queue)
                 => /\ after = Tail(queue)
                    /\ writer_pc.at \in {"get", "poll"}
                    /\ \/ Head(queue) = None /\ stop_received'
                       \/ taken' = taken \cup {Head(queue).id}
              /\ Len(after) = Len(queue) => after = queue]_vars

\* the queue was full, the writer has taken a record, and the record a
\* producer put since then fills the queue again
C25_Witness ==
    \E q \in DOMAIN symbol_queues :
        /\ Len(symbol_queues[q]) = queue_maxsize
        /\ taken # {}
        /\ symbol_queues[q][queue_maxsize].id = published
        /\ published > queue_maxsize


\* the records the writer holds or is about to take
InWriter ==
    UNION {{batches[k][i] : i \in 1..Len(batches[k])} : k \in DOMAIN batches}
    \cup {Head(symbol_queues[q]) :
             q \in {n \in DOMAIN symbol_queues : symbol_queues[n] # <<>>}}

\* C26: every row a step adds to the orderbook file of a symbol is the
\* summary of a record that names this symbol.
C26_SummaryInOwnFile ==
    [][\A k \in DOMAIN csv_files :
          k[1] = "orderbook_summary"
          => \A i \in (Len(csv_files[k].lines) + 1)
                          ..Len(csv_files'[k].lines) :
                \A r \in InWriter \ {None} :
                    r.id = csv_files'[k].lines[i] => r.symbol = k[2]]_vars


----------------------------------------------------------------------------
(* The summary emitter.                                                    *)

\* C27: a turn of the summary emitter puts a summary on the queue only for
\* a synchronized book, and the summary says is_synchronized = true; for
\* a book that is not synchronized it puts nothing.
C27_SummaryOnlyWhenSynchronized ==
    last_op.op = "output_orderbook_summary"
    => /\ \A i \in 1..Len(last_op.enqueued) :
             /\ orderbook.is_synchronized
             /\ last_op.enqueued[i].is_synchronized
       /\ ~orderbook.is_synchronized => last_op.enqueued = <<>>
       /\ orderbook.is_synchronized => Len(last_op.enqueued) = 1

\* the emitter has put the summary of a synchronized book that has
\* applied diffs
C27_Witness ==
    /\ last_op.op = "output_orderbook_summary"
    /\ Len(last_op.enqueued) = 1
    /\ orderbook.update_count > 0


\* C28: the summary emitter reads the book between two handlers, never
\* inside one. A summary is put only when the buffered diffs have been
\* replayed (a snapshot load and its replay are one step), it is the
\* summary of the book as the last handler left it, and while a snapshot
\* request is pending the diffs that arrive leave the book as it is.
C28_NoPartialBook ==
    [][/\ (/\ last_op'.op = "output_orderbook_summary"
           /\ last_op'.enqueued # <<>>)
          => /\ event_buffer = <<>>
             /\ orderbook' = orderbook
             /\ last_op'.enqueued
                  = <<get_depth_summary(orderbook, SummaryLevels)>>
       /\ (pc \in {"init_fetch", "resync_fetch"} /\ pc' = pc)
          => /\ orderbook'.bids = orderbook.bids
             /\ orderbook'.asks = orderbook.asks
             /\ orderbook'.last_update_id = orderbook.last_update_id
             /\ orderbook'.update_count = orderbook.update_count]_vars

\* a summary is put after a resync was started and a snapshot was loaded,
\* before any diff is applied live, by a book that has applied diffs
C28_Witness ==
    /\ last_op.op = "output_orderbook_summary"
    /\ last_op.enqueued # <<>>
    /\ last_op.resyncs > 0
    /\ orderbook.update_count > 0
    /\ live_applied = <<>>


----------------------------------------------------------------------------
(* ProcessManager: start(), _monitor_processes() and shutdown(), with the  *)
(* symbol worker processes and writer_process on the one data_queue. The   *)
(* signal handler runs shutdown() on the main thread, wherever that is.    *)

\* deaths of the writer the model follows
MaxWriterDeaths == 1

\* invocations of shutdown() the model follows
MaxShutdownCalls == 2

\* shutdown() that does not test self.running
ReturnsAtOnce_never(m) == FALSE

\* `if not self.running: return`, the first statement of shutdown()
ReturnsAtOnce(m) == ~m.running

\* shutdown() returns: to the code the signal handler interrupted, which is
\* an earlier shutdown() that had passed its test of self.running, or else
\* the main flow
ShutdownReturns(m) ==
    IF m.pending = 1
    THEN [m EXCEPT !.shutdown = "entered", !.pending = 0]
    ELSE [m EXCEPT !.shutdown = "done"]

\* the main thread is not inside shutdown()
MainRuns == manager.shutdown \in {"idle", "done"}

\* Process.is_alive() of a worker: a process that got SIGTERM is alive
\* until it has ended
IsAlive(w) == manager.workers[w] \in {"alive", "terminating"}

\* process.join(timeout=5), then process.kill() if it is still alive
JoinAndKill(status) == "dead"

\* largest modes.<mode>.max_workers of the configurations the model follows
MaxMaxWorkers == 2

\* manager = ProcessManager(): nothing is started; self.config is what
\* get_current_mode_config made of config.yaml, the enabled symbols and
\* max_workers
InitManager ==
    /\ BookNotStarted
    /\ writer_target = "writer_process"
    /\ symbol_queues = [q \in QueueNames("writer_process") |-> <<>>]
    /\ batches = EmptyBatches
    /\ csv_files = NoFiles
    /\ writer_pc = [at |-> "none", i |-> 0]
    /\ flush_due = FALSE
    /\ published = 0
    /\ stop_sent = FALSE
    /\ taken = {}
    /\ stop_received = FALSE
    /\ io_errors = 0
    /\ \E max_workers \in 1..MaxMaxWorkers :
          manager = [at |-> "start", i |-> 0, shutdown |-> "idle", j |-> 0,
                     running |-> FALSE, processes |-> <<>>,
                     workers |-> [w \in Symbols |-> "unstarted"],
                     writer_deaths |-> 0, max_workers |-> max_workers,
                     calls |-> 0, runs |-> 0, pending |-> 0]

\* start(): self.running = True, the writer process is started
ManagerStart ==
    /\ manager.at = "start"
    /\ manager' = [manager EXCEPT !.at = "start_workers", !.i = 1,
                                  !.running = TRUE]
    /\ writer_pc' = [at |-> "get", i |-> 0]
    /\ UNCHANGED <<book_vars, writer_target, symbol_queues, batches,
                   csv_files, flush_due, published, stop_sent, taken,
                   stop_received, io_errors>>

\* start(): one turn of the loop over enabled_symbols,
\* _start_symbol_process
StartSymbolProcess ==
    LET w == SymbolOrder[manager.i]
    IN  /\ manager.at = "start_workers"
        /\ MainRuns
        /\ manager' =
              [manager EXCEPT
                  !.workers[w] = "alive",
                  !.processes = Append(@, w),
                  !.i = IF manager.i < Len(SymbolOrder) THEN @ + 1 ELSE 0,
                  !.at = IF manager.i < Len(SymbolOrder) THEN @
                         ELSE "monitor"]
        /\ UNCHANGED <<book_vars, writer_target, symbol_queues, batches,
                       csv_files, writer_pc, flush_due, published,
                       stop_sent, taken, stop_received, io_errors>>

\* _monitor_processes: `while self.running` is true (and run_duration is
\* not over), the body of the loop is entered
MonitorEnter ==
    /\ manager.at = "monitor"
    /\ MainRuns
    /\ manager.running
    /\ manager' = [manager EXCEPT !.at = "monitor_body"]
    /\ UNCHANGED <<book_vars, writer_target, symbol_queues, batches,
                   csv_files, writer_pc, flush_due, published, stop_sent,
                   taken, stop_received, io_errors>>

\* _monitor_processes: the body of its loop. Dead processes leave
\* self.processes; a dead writer is replaced by a new writer_process on
\* the same data_queue; time.sleep(1). The body does not look at
\* self.running.
MonitorTick ==
    /\ manager.at = "monitor_body"
    /\ MainRuns
    /\ manager' = [manager EXCEPT
                      !.at = "monitor",
                      !.processes = SelectSeq(@, IsAlive)]
    /\ writer_pc' = IF WriterRunning THEN writer_pc
                    ELSE [at |-> "get", i |-> 0]
    /\ UNCHANGED <<book_vars, writer_target, symbol_queues, batches,
                   csv_files, flush_due, published, stop_sent, taken,
                   stop_received, io_errors>>

\* _monitor_processes: self.running is false, the loop ends, and the
\* shutdown() of the finally block returns at once
MonitorReturn ==
    /\ manager.at = "monitor"
    /\ MainRuns
    /\ ~manager.running
    /\ manager' = [manager EXCEPT
                      !.at = "returned",
                      !.calls = IF @ < MaxShutdownCalls THEN @ + 1 ELSE @]
    /\ UNCHANGED <<book_vars, writer_target, symbol_queues, batches,
                   csv_files, writer_pc, flush_due, published, stop_sent,
                   taken, stop_received, io_errors>>

\* shutdown() is invoked: by the signal handler (SIGINT, SIGTERM), wherever
\* the main thread is, also between two statements of shutdown(), or by
\* the finally block of _monitor_processes when the loop ended with
\* self.running true. It returns at once, or it has passed its test of
\* self.running; a shutdown() it interrupted after that test waits for it.
ShutdownCall ==
    /\ manager.at \in {"start_workers", "monitor", "monitor_body"}
    /\ manager.calls < MaxShutdownCalls
    /\ manager.pending = 0
    /\ manager' =
          IF ReturnsAtOnce(manager)
          THEN [manager EXCEPT !.calls = @ + 1]
          ELSE [manager EXCEPT
                   !.calls = @ + 1,
                   !.shutdown = "entered",
                   !.pending = IF manager.shutdown = "entered" THEN 1
                               ELSE 0]
    /\ UNCHANGED <<book_vars, writer_target, symbol_queues, batches,
                   csv_files, writer_pc, flush_due, published, stop_sent,
                   taken, stop_received, io_errors>>

\* shutdown() after its test of self.running: self.running = False and
\* terminate() for every process of self.processes that is alive
ShutdownBegin ==
    /\ manager.shutdown = "entered"
    /\ manager' =
          [manager EXCEPT
              !.running = FALSE,
              !.runs = @ + 1,
              !.workers = [w \in Symbols |->
                              IF /\ \E n \in 1..Len(manager.processes) :
                                       manager.processes[n] = w
                                 /\ IsAlive(w)
                              THEN "terminating" ELSE @[w]],
              !.shutdown = IF manager.processes = <<>> THEN "sentinel"
                           ELSE "join",
              !.j = 1]
    /\ UNCHANGED <<book_vars, writer_target, symbol_queues, batches,
                   csv_files, writer_pc, flush_due, published, stop_sent,
                   taken, stop_received, io_errors>>

\* shutdown(): one turn of the second loop over self.processes
ShutdownJoin ==
    LET w == manager.processes[manager.j]
    IN  /\ manager.shutdown = "join"
        /\ manager' =
              [manager EXCEPT
                  !.workers[w] = JoinAndKill(@),
                  !.j = @ + 1,
                  !.shutdown = IF manager.j < Len(manager.processes)
                               THEN @ ELSE "sentinel"]
        /\ UNCHANGED <<book_vars, writer_target, symbol_queues, batches,
                       csv_files, writer_pc, flush_due, published,
                       stop_sent, taken, stop_received, io_errors>>

\* shutdown(): if the writer is alive, self.data_queue.put(None), which
\* blocks while the queue is full
ShutdownSentinel ==
    /\ manager.shutdown = "sentinel"
    /\ IF WriterRunning
       THEN /\ ~Full(symbol_queues["data_queue"])
            /\ symbol_queues' =
                  [symbol_queues EXCEPT !["data_queue"] = Append(@, None)]
            /\ stop_sent' = TRUE
            /\ manager' = [manager EXCEPT !.shutdown = "join_writer"]
       ELSE /\ manager' = ShutdownReturns(manager)
            /\ UNCHANGED <<symbol_queues, stop_sent>>
    /\ UNCHANGED <<book_vars, writer_target, batches, csv_files, writer_pc,
                   flush_due, published, taken, stop_received, io_errors>>

\* shutdown(): self.writer_process.join(timeout=10) returns, because the
\* writer has ended or because the ten seconds are over; a writer that is
\* still alive gets terminate()
ShutdownJoinWriter ==
    /\ manager.shutdown = "join_writer"
    /\ manager' = ShutdownReturns(manager)
    /\ writer_pc' = IF WriterRunning THEN [at |-> "terminated", i |-> 0]
                    ELSE writer_pc
    /\ UNCHANGED <<book_vars, writer_target, symbol_queues, batches,
                   csv_files, flush_due, published, stop_sent, taken,
                   stop_received, io_errors>>

\* a worker process: binance_websocket_client puts a record of its symbol
\* on data_queue; put blocks while the queue is full
WorkerPut(w) ==
    /\ IsAlive(w)
    /\ published < MaxRecords
    /\ ~Full(symbol_queues["data_queue"])
    /\ symbol_queues' =
          [symbol_queues EXCEPT !["data_queue"] =
              Append(@, [stream_type |-> "aggtrade", symbol |-> w,
                         id |-> published + 1])]
    /\ published' = published + 1
    /\ UNCHANGED <<book_vars, writer_target, batches, csv_files, writer_pc,
                   flush_due, stop_sent, taken, stop_received, io_errors,
                   manager>>

\* a worker process ends: of itself, or on the SIGTERM of terminate()
WorkerExits(w) ==
    /\ IsAlive(w)
    /\ manager' = [manager EXCEPT !.workers[w] = "dead"]
    /\ UNCHANGED <<book_vars, writer_target, symbol_queues, batches,
                   csv_files, writer_pc, flush_due, published, stop_sent,
                   taken, stop_received, io_errors>>

\* the writer process dies (it is killed, or a KeyboardInterrupt ends it)
WriterDies ==
    /\ writer_pc.at = "get"
    /\ manager.writer_deaths < MaxWriterDeaths
    /\ writer_pc' = [at |-> "interrupted", i |-> 0]
    /\ manager' = [manager EXCEPT !.writer_deaths = @ + 1]
    /\ UNCHANGED <<book_vars, writer_target, symbol_queues, batches,
                   csv_files, flush_due, published, stop_sent, taken,
                   stop_received, io_errors>>

NextManager ==
    \/ ManagerStart
    \/ StartSymbolProcess
    \/ MonitorEnter
    \/ MonitorTick
    \/ MonitorReturn
    \/ ShutdownCall
    \/ ShutdownBegin
    \/ ShutdownJoin
    \/ ShutdownSentinel
    \/ ShutdownJoinWriter
    \/ \E w \in Symbols : WorkerPut(w)
    \/ \E w \in Symbols : WorkerExits(w)
    \/ \E outcome \in FlushOutcomes : WriterProcessGet(outcome)
    \/ WriterDies

SpecManager == InitManager /\ [][NextManager]_vars

\* The main thread of the manager runs on, the join timeouts of shutdown()
\* end, and the writer process keeps taking what is on the queue. Nobody is
\* bound to send a signal, and no process is bound to die.
FairnessManager ==
    /\ WF_vars(ManagerStart)
    /\ WF_vars(StartSymbolProcess)
    /\ WF_vars(MonitorEnter)
    /\ WF_vars(MonitorTick)
    /\ WF_vars(MonitorReturn)
    /\ WF_vars(ShutdownBegin)
    /\ WF_vars(ShutdownJoin)
    /\ WF_vars(ShutdownSentinel)
    /\ WF_vars(ShutdownJoinWriter)
    /\ WF_vars(\E outcome \in FlushOutcomes : WriterProcessGet(outcome))

FairSpecManager == SpecManager /\ FairnessManager

\* C29: once shutdown() has put the stop sentinel on the queue, no worker
\* puts a record: the workers were terminated, joined and killed before.
C29_NoPublishAfterSentinel ==
    [][stop_sent => published' = published]_vars


\* record id waits on the data_queue
OnBus(id) ==
    \E n \in 1..Len(symbol_queues["data_queue"]) :
        symbol_queues["data_queue"][n].id = id

\* C30: while the supervisor is running, a record that is on the bus when
\* the writer is found dead is written in the end, by the writer that the
\* monitor starts in its place on the same queue.
C30_BusSurvivesWriterDeath ==
    \A id \in 1..MaxRecords :
        (manager.running /\ ~WriterRunning /\ OnBus(id))
            ~> (RowsOf(id) >= 1 \/ ~manager.running)

\* symbol worker processes start() has spawned so far
Spawned == {w \in Symbols : manager.workers[w] # "unstarted"}

\* C31: the supervisor never spawns more symbol workers than the configured
\* max_workers.
C31_AtMostMaxWorkers ==
    manager # ManagerNotStarted =>
        Cardinality(Spawned) <= manager.max_workers

\* C32: every price level a book stores, on either side, has a quantity
\* above zero, after any snapshot loads and diff applications with
\* quantities that are not negative.
C32_StoredQtyPositive ==
    /\ \A k \in DOMAIN orderbook.bids : orderbook.bids[k] > 0
    /\ \A k \in DOMAIN orderbook.asks : orderbook.asks[k] > 0

\* a book that holds levels on both sides after a diff was applied
C32_Witness ==
    /\ last_op.op = "update_from_depth_event"
    /\ last_op.result = "applied"
    /\ DOMAIN orderbook.bids # {}
    /\ DOMAIN orderbook.asks # {}

\* one side of the book after the update (p, q), before trimming
OneUpdate(d, p, q, sign) == UpdateLevels(d, <<(<<p, q>>)>>, sign)

\* the update (p, 0) on side d: p is gone, every other level is as before,
\* an absent p changes nothing, and a second application changes nothing
ZeroRemoves(d, p, sign) ==
    LET once == OneUpdate(d, p, 0, sign)
    IN  /\ DOMAIN once = DOMAIN d \ {sign * p}
        /\ \A k \in DOMAIN once : once[k] = d[k]
        /\ sign * p \notin DOMAIN d => once = d
        /\ OneUpdate(once, p, 0, sign) = once

\* the update (p, q), q # 0, on side d: p holds q, every other level is as
\* before
NonZeroSets(d, p, q, sign) ==
    LET after == OneUpdate(d, p, q, sign)
    IN  /\ DOMAIN after = DOMAIN d \cup {sign * p}
        /\ after[sign * p] = q
        /\ \A k \in DOMAIN d \ {sign * p} : after[k] = d[k]

\* C33: on either side of any book the program can hold, the update (p, 0)
\* removes price p if it is there and changes nothing if it is not, so
\* that applying it twice equals applying it once; the update (p, q) with
\* q # 0 sets the quantity at p to q and leaves every other level of the
\* side unchanged, before trimming.
C33_UpdateAlgebra ==
    \A p \in Prices :
        /\ ZeroRemoves(orderbook.bids, p, -1)
        /\ ZeroRemoves(orderbook.asks, p, 1)
        /\ \A q \in (-MaxQty..MaxQty) \ {0} :
              /\ NonZeroSets(orderbook.bids, p, q, -1)
              /\ NonZeroSets(orderbook.asks, p, q, 1)

\* a book, made by an applied diff, with bids at two prices or more and an
\* ask side that lacks some price: present and absent prices both occur
C33_Witness ==
    /\ last_op.op = "update_from_depth_event"
    /\ last_op.result = "applied"
    /\ Cardinality(DOMAIN orderbook.bids) >= 2
    /\ DOMAIN orderbook.asks # Prices

\* the snapshots of the book model, with any lastUpdateId
SnapshotsAnyId ==
    {[s EXCEPT !.lastUpdateId = L] :
        s \in BookSnapshots, L \in 0..ReplayMaxId}

\* the levels of a level list that have a quantity above zero
PositiveLevels(levels) ==
    {levels[i] : i \in {j \in 1..Len(levels) : levels[j][2] > 0}}

\* side d, stored under sign * price, holds exactly the given levels
HoldsExactly(d, levels, sign) ==
    /\ DOMAIN d = {sign * l[1] : l \in levels}
    /\ \A l \in levels : d[sign * l[1]] = l[2]

\* C34: whatever the book holds, initialize_from_snapshot leaves in bids
\* and asks exactly the levels of the snapshot that have a quantity above
\* zero, last_update_id equal to the snapshot's lastUpdateId and
\* consecutive_failures equal to 0.
C34_SnapshotReplaces ==
    \A snapshot_data \in SnapshotsAnyId :
        LET after == initialize_from_snapshot(orderbook, snapshot_data)
        IN  /\ HoldsExactly(after.bids,
                            PositiveLevels(snapshot_data.bids), -1)
            /\ HoldsExactly(after.asks,
                            PositiveLevels(snapshot_data.asks), 1)
            /\ after.last_update_id = snapshot_data.lastUpdateId
            /\ after.consecutive_failures = 0

\* a snapshot was loaded into a book that diffs had been applied to
C34_Witness ==
    /\ last_op.op = "initialize_from_snapshot"
    /\ orderbook.update_count > 0
    /\ DOMAIN orderbook.bids # {}


----------------------------------------------------------------------------
(* The pandas flush functions and the direct CSV flush functions of        *)
(* file_writer.py, handed the same batch. A record is its id and the keys  *)
(* of its payload, in insertion order; a file is its header line, the      *)
(* tuple of column names, followed by the data rows, the record ids.       *)

\* records the comparison creates
MaxFlushed == 5

\* records handed to one flush call
MaxBatch == 2

AGGTRADE_FIELDS ==
    <<"e", "E", "a", "s", "p", "q", "f", "l", "T", "m", "localtime",
      "stream">>

DEPTH_FIELDS ==
    <<"localtime", "stream", "e", "E", "T", "s", "U", "u", "pu", "bids",
      "asks", "bids_count", "asks_count">>

KLINE_FIELDS ==
    <<"localtime", "stream", "event_type", "event_time", "s", "k_t", "k_T",
      "k_s", "k_i", "k_f", "k_L", "k_o", "k_c", "k_h", "k_l", "k_v", "k_n",
      "k_x", "k_q", "k_V", "k_Q", "k_B">>

FlushKinds == {"aggtrade", "depth", "kline"}

\* the symbols the comparison writes under: one for each implementation
TestSymbols == {"TESTPANDAS", "TESTOPTIMIZED"}

\* data['data'] of an aggTrade record: its keys
AggTradeKeys == <<"e", "E", "a", "s", "p", "q", "f", "l", "T", "m">>

\* data['data'] of a depthUpdate record: its keys
DepthKeys == <<"e", "E", "T", "s", "U", "u", "pu", "b", "a">>

\* data['data'] of a kline record, and data['data']['k']: their keys
KlineEventKeys == <<"e", "E", "k">>

KlineKeys ==
    <<"s", "t", "T", "i", "f", "L", "o", "c", "h", "l", "v", "n", "x", "q",
      "V", "Q", "B">>

\* record number id of a kind, as the tests build it
MockRecord(stream_type, id) ==
    [stream_type |-> stream_type, id |-> id,
     data |-> CASE stream_type = "aggtrade" -> AggTradeKeys
                [] stream_type = "depth" -> DepthKeys
                [] stream_type = "kline" -> KlineEventKeys,
     k |-> IF stream_type = "kline" THEN KlineKeys ELSE <<>>]

\* the keys of a dict with the given keys after dict[key] = value for each
\* key of `more`, in turn: a new key goes last, an old one keeps its place
SetKeys(keys, more) ==
    LET IsNew(key) == \A i \in 1..Len(keys) : keys[i] # key
    IN  keys \o SelectSeq(more, IsNew)

\* pd.DataFrame(df_data).columns, df_data a list of dicts: the keys in the
\* order of their first appearance
RECURSIVE DataFrameColumns(_)
DataFrameColumns(df_data) ==
    IF df_data = <<>> THEN <<>>
    ELSE SetKeys(DataFrameColumns(SubSeq(df_data, 1, Len(df_data) - 1)),
                 df_data[Len(df_data)])

\* the data rows of a batch
RowIds(records) == [i \in 1..Len(records) |-> records[i].id]

\* save_to_csv(df, filename): the header, df.columns, only into a file
\* that does not exist yet
save_to_csv_columns(file, columns, rows) ==
    [exists |-> TRUE,
     lines |-> (IF file.exists THEN file.lines ELSE <<columns>>) \o rows]

\* append_csv_rows(filepath, rows, fields), with ensure_csv_header
append_csv_rows_fields(file, rows, fields) ==
    [exists |-> TRUE,
     lines |-> (IF file.exists THEN file.lines ELSE <<fields>>) \o rows]

\* the dict depth_record that _flush_depth_batch builds: its keys
DepthRecordKeys ==
    <<"localtime", "stream", "e", "E", "T", "s", "U", "u", "pu", "bids",
      "asks", "bids_count", "asks_count">>

flush_aggtrade_batch(file, records) ==
    IF records = <<>> THEN file
    ELSE save_to_csv_columns(
             file,
             DataFrameColumns(
                 [i \in 1..Len(records) |->
                     SetKeys(records[i].data, <<"localtime", "stream">>)]),
             RowIds(records))

flush_depth_batch(file, records) ==
    IF records = <<>> THEN file
    ELSE save_to_csv_columns(
             file,
             DataFrameColumns([i \in 1..Len(records) |-> DepthRecordKeys]),
             RowIds(records))

flush_kline_batch(file, records) ==
    IF records = <<>> THEN file
    ELSE save_to_csv_columns(
             file,
             DataFrameColumns(
                 [i \in 1..Len(records) |->
                     SetKeys(records[i].k,
                             <<"localtime", "stream", "event_type",
                               "event_time">>)]),
             RowIds(records))

flush_aggtrade_batch_optimized(file, records) ==
    IF records = <<>> THEN file
    ELSE append_csv_rows_fields(file, RowIds(records), AGGTRADE_FIELDS)

flush_depth_batch_optimized(file, records) ==
    IF records = <<>> THEN file
    ELSE append_csv_rows_fields(file, RowIds(records), DEPTH_FIELDS)

flush_kline_batch_optimized(file, records) ==
    IF records = <<>> THEN file
    ELSE append_csv_rows_fields(file, RowIds(records), KLINE_FIELDS)

\* the pandas flush function of a kind, and the direct one
FlushPandas(stream_type, file, records) ==
    CASE stream_type = "aggtrade" -> flush_aggtrade_batch(file, records)
      [] stream_type = "depth" -> flush_depth_batch(file, records)
      [] stream_type = "kline" -> flush_kline_batch(file, records)

FlushOptimized(stream_type, file, records) ==
    CASE stream_type = "aggtrade" ->
             flush_aggtrade_batch_optimized(file, records)
      [] stream_type = "depth" -> flush_depth_batch_optimized(file, records)
      [] stream_type = "kline" -> flush_kline_batch_optimized(file, records)

\* no file of the comparison exists
InitFlush ==
    /\ BookNotStarted
    /\ writer_target = "none"
    /\ symbol_queues = <<>>
    /\ batches = <<>>
    /\ csv_files = [key \in FlushKinds \X TestSymbols |-> NoFile]
    /\ writer_pc = [at |-> "none", i |-> 0]
    /\ flush_due = FALSE
    /\ published = 0
    /\ stop_sent = FALSE
    /\ taken = {}
    /\ stop_received = FALSE
    /\ io_errors = 0
    /\ manager = ManagerNotStarted

\* one batch of n new records of a kind goes to the pandas flush function
\* under TESTPANDAS and to the direct one under TESTOPTIMIZED
FlushBoth(stream_type, n) ==
    LET records == [i \in 1..n |-> MockRecord(stream_type, published + i)]
    IN  /\ published + n <= MaxFlushed
        /\ csv_files' =
              [csv_files EXCEPT
                  ![<<stream_type, "TESTPANDAS">>] =
                      FlushPandas(stream_type, @, records),
                  ![<<stream_type, "TESTOPTIMIZED">>] =
                      FlushOptimized(stream_type, @, records)]
        /\ published' = published + n
        /\ UNCHANGED <<book_vars, writer_target, symbol_queues, batches,
                       writer_pc, flush_due, stop_sent, taken,
                       stop_received, io_errors, manager>>

NextFlush ==
    \E stream_type \in FlushKinds, n \in 1..MaxBatch :
        FlushBoth(stream_type, n)

SpecFlush == InitFlush /\ [][NextFlush]_vars

\* the header line of a file, and the number of its data rows
HeaderOf(file) == file.lines[1]

DataRows(file) == Len(file.lines) - 1

\* C35: after the same batches went to the pandas flush function and to the
\* direct CSV flush function of a kind (aggtrade, depth, kline), the two
\* files have the same header columns in the same order and the same number
\* of data rows.
C35_SameHeaderAndRows ==
    \A stream_type \in FlushKinds :
        LET pandas == csv_files[<<stream_type, "TESTPANDAS">>]
            optimized == csv_files[<<stream_type, "TESTOPTIMIZED">>]
        IN  pandas.exists =>
                /\ optimized.exists
                /\ HeaderOf(pandas) = HeaderOf(optimized)
                /\ DataRows(pandas) = DataRows(optimized)

\* a snapshot has just been loaded by initialize_orderbook or by
\* resync_orderbook
SnapshotLoaded(op) ==
    /\ op.op \in {"initialize_orderbook", "resync_orderbook"}
    /\ op.result \in {"empty_buffer", "valid_event", "no_valid_event"}

\* C36: consecutive_failures is 0 or 1 in every state. It grows only by the
\* continuity violation of a synchronized book, which leaves the book
\* unsynchronized; a diff that arrives at an unsynchronized book is buffered
\* and the book, its counter included, stays as it is; every apply of a
\* diff and every snapshot load leave the counter at 0.
C36_FailuresZeroOrOne ==
    [][/\ orderbook.consecutive_failures \in {0, 1}
       /\ orderbook'.consecutive_failures \in {0, 1}
       /\ orderbook'.consecutive_failures > orderbook.consecutive_failures
              => /\ orderbook.is_synchronized
                 /\ ~orderbook'.is_synchronized
                 /\ last_op' = Op("handle_depth_event", "gap", 0)
       /\ \A event_data \in NextDiffs(stream_id) :
              (HandleDepthEvent(event_data) /\ ~orderbook.is_synchronized)
              => /\ orderbook' = orderbook
                 /\ event_buffer'[Len(event_buffer')] = event_data
       /\ orderbook'.update_count # orderbook.update_count
              => orderbook'.consecutive_failures = 0
       /\ SnapshotLoaded(last_op')
              => orderbook'.consecutive_failures = 0]_vars

\* a resync has loaded its snapshot into a book whose counter was 1: the
\* counter is 0 again
C36_Witness ==
    /\ last_op.op = "resync_orderbook"
    /\ last_op.result = "valid_event"
    /\ orderbook.is_synchronized
    /\ orderbook.consecutive_failures = 0
    /\ orderbook.update_count > 0

\* a snapshot request of initialize_orderbook or resync_orderbook is in
\* flight
FetchInFlight == pc \in {"init_fetch", "resync_fetch"}

\* C37: while a snapshot request is in flight the book is unsynchronized;
\* a diff that arrives goes to the end of the buffer (the oldest entry of a
\* full buffer is evicted) and the book stays as it is; nothing else
\* changes the book or the buffer; and when the snapshot arrives the
\* replay is given the snapshot's book and the whole buffer.
C37_FetchBuffers ==
    [][FetchInFlight =>
          /\ ~orderbook.is_synchronized
          /\ \A event_data \in NextDiffs(stream_id) :
                HandleDepthEvent(event_data)
                => /\ orderbook' = orderbook
                   /\ \/ event_buffer' = Append(event_buffer, event_data)
                      \/ /\ Len(event_buffer) = BufferMaxLen
                         /\ event_buffer'
                              = Append(Tail(event_buffer), event_data)
          /\ pc' = pc
                => /\ orderbook' = orderbook
                   /\ \/ event_buffer' = event_buffer
                      \/ last_op'.op = "handle_depth_event"
          /\ SnapshotLoaded(last_op')
                => \E snapshot_data \in Snapshots :
                      LET r == process_buffered_events(
                                   initialize_from_snapshot(orderbook,
                                                            snapshot_data),
                                   event_buffer)
                      IN  /\ snapshot_data.lastUpdateId = last_op'.L
                          /\ orderbook' = r.ob
                          /\ event_buffer' = r.buffer]_vars

\* the snapshot of initialize_orderbook has arrived and the replay has
\* applied a diff that was waiting in the buffer
C37_Witness ==
    /\ last_op.op = "initialize_orderbook"
    /\ last_op.result = "valid_event"
    /\ orderbook.is_synchronized
    /\ orderbook.update_count > 0
    /\ orderbook.last_update_id > last_op.L

\* C38: once shutdown has begun in the monitor loop (self.running is false
\* and the main thread is in _monitor_processes), the supervisor starts no
\* process: no worker and no writer that was not alive becomes alive.
C38_NoStartAfterShutdown ==
    [][(manager.at \in {"monitor", "monitor_body"} /\ ~manager.running)
          => /\ \A w \in Symbols :
                   manager'.workers[w] = "alive"
                       => manager.workers[w] = "alive"
             /\ WriterRunning' => WriterRunning]_vars

\* stop sentinels that have been put on the bus: those that wait on the
\* queue and the one a writer has taken
SentinelsPut ==
    Cardinality({n \in 1..Len(symbol_queues["data_queue"]) :
                    symbol_queues["data_queue"][n] = None})
        + (IF stop_received THEN 1 ELSE 0)

\* a step of shutdown()
ShutdownStep ==
    \/ manager'.shutdown # manager.shutdown
    \/ manager'.j # manager.j

\* C39, as stated: when shutdown() has been invoked more than once, the
\* termination sequence has run once at most and, when shutdown has
\* completed, exactly one stop sentinel has been put on the bus.
C39_ShutdownOnce ==
    manager.calls >= 2 =>
        /\ manager.runs <= 1
        /\ manager.shutdown = "done" => SentinelsPut = 1

\* What does hold of repeated shutdown() invocations (C39): an invocation
\* that finds self.running false returns at once and changes nothing; a
\* second termination sequence changes no process and not the bus; at
\* most one stop sentinel is ever put, and the first sequence puts it
\* exactly when the writer is alive at that point.
C39_ShutdownEffectsOnce ==
    [][/\ SentinelsPut' <= 1
       /\ SentinelsPut' > SentinelsPut
              => WriterRunning /\ manager.runs = 1
       /\ (/\ manager.shutdown = "sentinel"
           /\ manager'.shutdown # "sentinel"
           /\ manager.runs = 1)
              => SentinelsPut' = (IF WriterRunning THEN 1 ELSE 0)
       /\ (manager'.runs = 2 /\ ShutdownStep)
              => /\ manager'.workers = manager.workers
                 /\ symbol_queues' = symbol_queues
                 /\ writer_pc' = writer_pc
                 /\ stop_sent' = stop_sent
       /\ (manager'.calls > manager.calls /\ ~manager.running)
              => /\ manager' = [manager EXCEPT !.calls = manager'.calls,
                                               !.at = manager'.at]
                 /\ UNCHANGED <<symbol_queues, writer_pc, stop_sent>>]_vars

\* a signal interrupted shutdown() after its test of self.running: two
\* termination sequences have run to their end and one stop sentinel has
\* been put
C39_Witness ==
    /\ manager.calls >= 2
    /\ manager.runs = 2
    /\ manager.shutdown = "done"
    /\ SentinelsPut = 1
====
